---- MODULE Spec2Model ----
(***************************************************************************)
(* A model of the strchat client core (package internal/client): the event *)
(* ingestion pipeline with its seen-cache and ordering buffer, the         *)
(* proof-of-work check and miner, the relay subscription reconciliation    *)
(* and the chat/group view state.                                          *)
(*                                                                         *)
(* Strings whose characters the code inspects (event ids, declared         *)
(* difficulties) are sequences of byte codes; names that the code only     *)
(* compares for equality are TLA+ strings.                                 *)
(***************************************************************************)
EXTENDS Integers, Sequences, FiniteSets, TLC

VARIABLES
    \* --- configuration (c.config) and identity ---
    views,            \* c.config.Views: sequence of View records
    activeViewName,   \* c.config.ActiveViewName
    blockedUsers,     \* c.config.BlockedUsers (the public keys)
    mutes,            \* c.config.Mutes: sequence of [Pattern, Enabled]
    filters,          \* c.config.Filters: sequence of [Pattern, Enabled]
    mainKey,          \* c.sk / c.pk: the main key pair (0: none)
    chatKeys,         \* c.chatKeys: chat -> key pair of its session (0: none)
    lastEmitted,      \* display events sent by the handler of the last user action
    \* --- ingestion: seen-cache, listeners, ordering buffer ---
    seenCache,        \* c.seenCache: LRU keys, oldest first
    lpc,              \* per relay listener: position inside processEvent
    lev,              \* per relay listener: the event it is processing
    orderBuf,         \* c.orderBuf: stream key -> sequence of orderItem
    orderTimers,      \* c.orderTimers: the stream keys with a pending timer
    userContext,      \* c.userContext: public key -> chat it was last seen in
    uiEvents,         \* display events sent on c.eventsChan, in order
    lastBatch,        \* the items emitted by the most recent flushOrdered
    delivered,        \* number of events relays have delivered so far
    enqCount,         \* history: id -> number of enqueueOrdered calls
    arrivals,         \* history: id -> number of arrivals from unblocked senders
    evicted,          \* history: ids the seen-cache has evicted
    \* --- one set of events enqueued in two arrival orders ---
    permSet,          \* the set of order items
    permRem,          \* copy -> items not yet enqueued
    permBuf,          \* copy -> the stream's buffer
    permOut,          \* copy -> the items its flush emitted
    permDone,         \* the copies that have been flushed
    permArrival,      \* history: copy -> items in arrival order
    \* --- one call of isPoWValid ---
    powEvent,         \* the event checked
    powMin,           \* the minDifficulty argument
    powResult,        \* the value returned
    powDone,          \* the call has returned
    \* --- root context and the mining goroutine ---
    cancelled,        \* c.ctx is cancelled
    mpc,              \* position of minePoWAndPublish
    mEv,              \* the arguments of minePoWAndPublish: [ev, difficulty, targetChat]
    nonceCounter,     \* nonceCounter of the mining loop
    published,        \* the events handed to publish
    cancelWhileMining,\* history: c.ctx was cancelled while the loop was running
    switchWhileMining,\* history: the view was switched while the loop was running
    sinceCancel,      \* history: loop rounds completed since the cancellation
    \* --- relay connections and subscriptions ---
    relays,           \* c.relays: URL -> managed relay (0: none)
    mrSubscription,   \* mr.subscription of each managed relay (0: nil)
    mrClosed,         \* mr.relay.Close() was called
    subs,             \* the subscriptions Subscribe returned, per managed relay
    failCache,        \* URLs that relayFailed reports
    rpc,              \* position of updateRelaySubscriptions
    desiredRelays,    \* the argument of the current (last) updateRelaySubscriptions
    reps,             \* the goroutines that connect and (re)subscribe
    nconns,           \* number of manageRelayConnection goroutines started
    calls,            \* number of updateRelaySubscriptions calls started
    rhist,            \* history of the current updateRelaySubscriptions call
    \* --- relay listeners (listenForEvents) ---
    mrConnected,      \* mr.connected of each managed relay
    mrAttempts,       \* mr.reconnectAttempts of each managed relay
    lis,              \* the listener goroutine of each managed relay
    closedSubs,       \* subscriptions whose Events channel the relay closed
    discovered,       \* c.discoveredStore.Relays: the URLs stored
    ncloses,          \* number of subscriptions closed by relays so far
    \* --- relay discovery (discoverOnAnchor, parseRelayEvent) ---
    activeDiscoveries,\* c.activeDiscoveries
    crawl,            \* the discoverOnAnchor goroutines
    parsers,          \* the parseRelayEvent goroutines
    verifs,           \* the verification goroutines
    verifying,        \* c.verifying: the URLs marked
    chist,            \* history of the crawl
    \* --- Run and shutdown ---
    spc,              \* position of Run / shutdown
    flushers,         \* stream keys with a flushOrdered goroutine of shutdown
    \* --- SEND_MESSAGE ---
    sendMsg,          \* the publishMessage goroutine started: its message
    \* --- locks and the display-event channel ---
    relaysMu,         \* c.relaysMu: the task that holds it (0: free)
    mrMu,             \* mr.mu of the managed relay of each URL: its holder (0: free)
    ltask,            \* the tasks that take the locks
    chanLen,          \* number of display events buffered in c.eventsChan
    lockTable,        \* the URLs that have a managed relay in c.relays
    \* --- one call of retryWithBackoff ---
    rbPc,             \* position of the call
    rbAttempt,        \* the attempt argument
    rbDelay,          \* the delay computed
    \* --- the timers of the runtime ---
    afterFuncs,       \* per stream key: the timers time.AfterFunc started that
                      \* have neither fired nor been stopped
    \* --- one publishMessage call and its publish ---
    pubPc,            \* position of the call
    pubRelays,        \* relaysForPublishing: the managed relays selected
    pubLeft,          \* the selected relays whose Publish has not returned
    pubLog,           \* history: what each Publish call found of its relay
    \* --- one call of a helper function ---
    callPc,           \* position of the call
    callArgs,         \* its arguments, and what its environment will answer
    callResult        \* its locals and its result

cfgVars    == <<views, activeViewName, blockedUsers, mutes, filters>>
keyVars    == <<mainKey, chatKeys, lastEmitted>>
ingestVars == <<seenCache, lpc, lev, orderBuf, orderTimers, userContext, uiEvents,
                lastBatch, delivered, enqCount, arrivals, evicted>>
permVars   == <<permSet, permRem, permBuf, permOut, permDone, permArrival>>
powVars    == <<powEvent, powMin, powResult, powDone>>
mineVars   == <<cancelled, mpc, mEv, nonceCounter, published, cancelWhileMining,
                switchWhileMining, sinceCancel>>
relayVars  == <<relays, mrSubscription, mrClosed, subs, failCache, rpc, desiredRelays,
                reps, nconns, calls, rhist>>
listenVars == <<mrConnected, mrAttempts, lis, closedSubs, discovered, ncloses>>
crawlVars  == <<activeDiscoveries, crawl, parsers, verifs, verifying, chist>>
shutVars   == <<spc, flushers>>
sendVars   == <<sendMsg>>
lockVars   == <<relaysMu, mrMu, ltask, chanLen, lockTable>>
backoffVars == <<rbPc, rbAttempt, rbDelay>>
timerVars  == <<afterFuncs>>
pubVars    == <<pubPc, pubRelays, pubLeft, pubLog>>
callVars   == <<callPc, callArgs, callResult>>
extRest    == <<listenVars, crawlVars, shutVars, sendVars, lockVars, backoffVars>>
extVars    == <<extRest, timerVars, pubVars, callVars>>
vars       == <<cfgVars, keyVars, ingestVars, permVars, powVars, mineVars, relayVars,
                extVars>>

----------------------------------------------------------------------------
\* Bounds of the model.

\* capacity of the seen-cache (seenCacheSize, 8192 in the source), scaled
seenCacheSize == 1
\* capacity of one stream's ordering buffer (perStreamBufferMax, 256), scaled
perStreamBufferMax == 2
\* number of events the relays deliver in one run
MaxDeliveries == 3
\* longest message content kept by truncateString (MaxMsgLen, 2000), scaled
MaxMsgLen == 3
\* capacity of c.eventsChan (10 in main.go), scaled
eventsChanCap == 1

----------------------------------------------------------------------------
\* Byte strings.

\* the byte of the lower-case hex digit of a nibble value
HexChar(v) == IF v < 10 THEN 48 + v ELSE 87 + v

\* Go's string comparison a < b: byte-wise lexicographic
RECURSIVE StrLess(_, _)
StrLess(a, b) ==
    IF b = <<>> THEN FALSE
    ELSE IF a = <<>> THEN TRUE
    ELSE IF Head(a) # Head(b) THEN Head(a) < Head(b)
    ELSE StrLess(Tail(a), Tail(b))

IsSpace(ch) == ch \in {9, 10, 11, 12, 13, 32}

RECURSIVE TrimLeft(_)
TrimLeft(s) == IF s # <<>> /\ IsSpace(Head(s)) THEN TrimLeft(Tail(s)) ELSE s

RECURSIVE TrimRight(_)
TrimRight(s) ==
    IF s # <<>> /\ IsSpace(s[Len(s)]) THEN TrimRight(SubSeq(s, 1, Len(s) - 1)) ELSE s

TrimSpace(s) == TrimRight(TrimLeft(s))

IsDigit(ch) == ch >= 48 /\ ch <= 57

RECURSIVE DigitsValue(_, _)
DigitsValue(s, acc) ==
    IF s = <<>> THEN acc ELSE DigitsValue(Tail(s), acc * 10 + (Head(s) - 48))

\* strconv.Atoi: an optional sign followed by at least one decimal digit
Atoi(s) ==
    LET signed == s # <<>> /\ Head(s) \in {43, 45}
        digits == IF signed THEN Tail(s) ELSE s
        ok     == digits # <<>> /\ \A i \in 1..Len(digits) : IsDigit(digits[i])
    IN  IF ~ok THEN [err |-> TRUE, val |-> 0]
        ELSE [err |-> FALSE,
              val |-> IF signed /\ Head(s) = 45 THEN 0 - DigitsValue(digits, 0)
                      ELSE DigitsValue(digits, 0)]

----------------------------------------------------------------------------
\* Proof-of-work verification.

\* a table that knows whole zero nibbles only
hexToLeadingZeros_wholeNibbles(ch) ==
    LET isHex == (ch >= 48 /\ ch <= 57) \/ (ch >= 97 /\ ch <= 102) \/ (ch >= 65 /\ ch <= 70)
    IN  IF ~isHex THEN -1 ELSE IF ch = 48 THEN 4 ELSE 0

\* the table built by init(): leading zero bits of one hex character, -1 for
\* a character that is no hex digit
hexToLeadingZeros(ch) ==
    LET isHex == (ch >= 48 /\ ch <= 57) \/ (ch >= 97 /\ ch <= 102) \/ (ch >= 65 /\ ch <= 70)
        val   == IF ch <= 57 THEN ch - 48 ELSE IF ch >= 97 THEN ch - 87 ELSE ch - 55
    IN  IF ~isHex THEN -1
        ELSE IF val = 0 THEN 4
        ELSE IF val = 1 THEN 3
        ELSE IF val <= 3 THEN 2
        ELSE IF val <= 7 THEN 1
        ELSE 0

RECURSIVE countLoop(_, _, _)
countLoop(hexString, i, count) ==
    IF i > Len(hexString) THEN count
    ELSE LET zeros == hexToLeadingZeros(hexString[i])
         IN  IF zeros = -1 THEN count
             ELSE IF zeros # 4 THEN count + zeros
             ELSE countLoop(hexString, i + 1, count + zeros)

countLeadingZeroBits(hexString) == countLoop(hexString, 1, 0)

\* Tags.Find / Tags.FindLast: the first / last tag with at least two elements
\* whose first element is the key; <<>> when there is none
TagFind(tags, key) ==
    LET hits == {i \in 1..Len(tags) : Len(tags[i]) >= 2 /\ tags[i][1] = key}
    IN  IF hits = {} THEN <<>>
        ELSE tags[CHOOSE i \in hits : \A j \in hits : i <= j]

TagFindLast(tags, key) ==
    LET hits == {i \in 1..Len(tags) : Len(tags[i]) >= 2 /\ tags[i][1] = key}
    IN  IF hits = {} THEN <<>>
        ELSE tags[CHOOSE i \in hits : \A j \in hits : i >= j]

\* the first nonce tag instead of the last
nonceTagOf_first(tags) == TagFind(tags, "nonce")

\* event.Tags.FindLast("nonce")
nonceTagOf(tags) == TagFindLast(tags, "nonce")

isPoWValid(event, minDifficulty) ==
    IF minDifficulty <= 0 THEN TRUE
    ELSE LET nonceTag == nonceTagOf(event.Tags)
         IN  IF Len(nonceTag) < 3 THEN FALSE
             ELSE LET claimed == Atoi(TrimSpace(nonceTag[3]))
                  IN  IF claimed.err \/ claimed.val < minDifficulty THEN FALSE
                      ELSE countLeadingZeroBits(event.ID) >= claimed.val

----------------------------------------------------------------------------
\* Views.

View(name, isGroup, children, pow) ==
    [Name |-> name, IsGroup |-> isGroup, Children |-> children, PoW |-> pow]

NoView == [Name |-> "", IsGroup |-> FALSE, Children |-> <<>>, PoW |-> -1]

SeqContains(s, x) == \E i \in 1..Len(s) : s[i] = x

getActiveViewOf(vs, active) ==
    LET hits == {i \in 1..Len(vs) : vs[i].Name = active}
    IN  IF hits # {} THEN vs[CHOOSE i \in hits : \A j \in hits : i <= j]
        ELSE IF Len(vs) > 0 THEN vs[1]
        ELSE NoView

getActiveView == getActiveViewOf(views, activeViewName)

effectivePoWForChat(chat) ==
    LET own == {i \in 1..Len(views) :
                   ~views[i].IsGroup /\ views[i].Name = chat /\ views[i].PoW > 0}
        av  == getActiveView
    IN  IF own # {} THEN views[CHOOSE i \in own : \A j \in own : i <= j].PoW
        ELSE IF av # NoView /\ av.IsGroup /\ av.PoW > 0 /\ SeqContains(av.Children, chat)
             THEN av.PoW
        ELSE 0

----------------------------------------------------------------------------
\* Seen-cache (an LRU of event ids) and ordering buffer.

SeenContains(cache, id) == SeqContains(cache, id)

\* a seen-cache that does not record the id
SeenCacheAdd_notRecorded(cache, id) == cache

\* lru.Add of a key that is not in the cache: the oldest key is evicted when
\* the cache is full
SeenCacheAdd(cache, id) ==
    IF Len(cache) >= seenCacheSize THEN Append(Tail(cache), id) ELSE Append(cache, id)

OrderItem(ev, relay, chat) ==
    [createdAt |-> ev.CreatedAt, id |-> ev.ID, relay |-> relay, chat |-> chat]

\* an enqueue that never drops an item
EnqueueBuf_appendOnly(buf, item) == Append(buf, item)

\* the buffer after enqueueOrdered: the oldest item is dropped on overflow
EnqueueBuf(buf, item) ==
    IF Len(buf) >= perStreamBufferMax THEN Append(Tail(buf), item) ELSE Append(buf, item)

\* a comparison that ignores the event id
less_timestampOnly(x, y) == x.createdAt < y.createdAt

\* the comparison function flushOrdered passes to sort.Slice
less(x, y) ==
    IF x.createdAt = y.createdAt THEN StrLess(x.id, y.id)
    ELSE x.createdAt < y.createdAt

\* insertion of x after the last element that is not greater than it
RECURSIVE InsertSorted(_, _)
InsertSorted(sorted, x) ==
    IF sorted = <<>> THEN <<x>>
    ELSE IF less(x, Head(sorted)) THEN <<x>> \o sorted
    ELSE <<Head(sorted)>> \o InsertSorted(Tail(sorted), x)

\* sort.Slice(buf, less): for the short slices of the model an insertion sort
RECURSIVE SortItems(_)
SortItems(buf) ==
    IF buf = <<>> THEN <<>>
    ELSE InsertSorted(SortItems(SubSeq(buf, 1, Len(buf) - 1)), buf[Len(buf)])

----------------------------------------------------------------------------
\* Content sanitising and pattern matching (ASCII content).

\* truncateString: at most maxRunes characters, then "..."
truncateString(s, maxRunes) ==
    IF Len(s) <= maxRunes THEN s ELSE SubSeq(s, 1, maxRunes) \o <<46, 46, 46>>

\* sanitizeString on ASCII: control characters are dropped
RECURSIVE sanitizeString(_)
sanitizeString(s) ==
    IF s = <<>> THEN <<>>
    ELSE IF Head(s) < 32 \/ Head(s) = 127 THEN sanitizeString(Tail(s))
    ELSE <<Head(s)>> \o sanitizeString(Tail(s))

\* strings.Contains
StrContains(s, sub) ==
    \E i \in 0..(Len(s) - Len(sub)) : SubSeq(s, i + 1, i + Len(sub)) = sub

\* every pattern is compiled, enabled or not
compileAll_withDisabled(src) == {src[i].Pattern : i \in 1..Len(src)}

\* rebuildRegexCaches: the enabled patterns, here all literal
compileAll(src) == {src[i].Pattern : i \in {j \in 1..Len(src) : src[j].Enabled}}

mutesCompiled == compileAll(mutes)
filtersCompiled == compileAll(filters)

matchesAny(content, patterns) ==
    \E pat \in patterns : pat # <<>> /\ StrContains(content, pat)

----------------------------------------------------------------------------
\* The inbound events and the relays of the model.

Relays == {"r1", "r2"}

InEvent(id, pubkey, createdAt, tags, content) ==
    [ID |-> id, PubKey |-> pubkey, CreatedAt |-> createdAt, Tags |-> tags,
     Content |-> content]

NoEvent == InEvent(<<>>, "", 0, <<>>, <<>>)

\* "hi", "spam" as byte strings
TxtHi == <<104, 105>>
TxtSpam == <<115, 112, 97, 109>>

NonceTag(declared) == <<"nonce", "0", declared>>

InboundEvents ==
    { \* id "0a", chat a, declares difficulty 4 and has 4 leading zero bits
      InEvent(<<48, 97>>, "u1", 2, << <<"d", "a">>, NonceTag(<<52>>) >>, TxtHi),
      \* id "05" and id "03": the same timestamp, chat a
      InEvent(<<48, 53>>, "u2", 1, << <<"d", "a">>, NonceTag(<<52>>) >>, TxtHi),
      InEvent(<<48, 51>>, "u1", 1, << <<"d", "a">>, NonceTag(<<52>>) >>, TxtHi),
      \* id "1f": declares 4 but has only 3 leading zero bits
      InEvent(<<49, 102>>, "u2", 1, << <<"d", "a">>, NonceTag(<<52>>) >>, TxtHi),
      \* id "2b", chat b, no proof of work
      InEvent(<<50, 98>>, "u3", 3, << <<"g", "b">> >>, TxtHi),
      \* id "3c", chat b, muted content
      InEvent(<<51, 99>>, "u3", 3, << <<"g", "b">> >>, TxtSpam),
      \* id "4d", from a blocked user
      InEvent(<<52, 100>>, "u4", 1, << <<"d", "a">> >>, TxtHi),
      \* id "5e", no chat tag
      InEvent(<<53, 101>>, "u1", 1, << <<"n", "x">> >>, TxtHi) }

EventIds == {e.ID : e \in InboundEvents}
PubKeys == {e.PubKey : e \in InboundEvents}

ChatNames == {"a", "b", "c"}
GroupAB == "Group-ab"
ViewNames == ChatNames \cup {"Group-ab", "Group-ac", "Group-bc", "Group-abc"}
StreamKeys == {"chat", "group"} \X ViewNames

\* the views of the ingestion runs: chat a requires difficulty 4
IngestViews ==
    << View("a", FALSE, <<>>, 4), View("b", FALSE, <<>>, 0),
       View(GroupAB, TRUE, <<"a", "b">>, 0) >>

InitConfigIngest ==
    /\ views = IngestViews
    /\ activeViewName \in {"a", GroupAB}
    /\ blockedUsers = {"u4"}
    /\ mutes = << [Pattern |-> TxtSpam, Enabled |-> TRUE] >>
    /\ filters = <<>>
    /\ mainKey = 1
    /\ chatKeys = [c \in ChatNames |-> 0]
    /\ lastEmitted = <<>>

InitIngest ==
    /\ seenCache = <<>>
    /\ lpc = [r \in Relays |-> "recv"]
    /\ lev = [r \in Relays |-> NoEvent]
    /\ orderBuf = [k \in StreamKeys |-> <<>>]
    /\ orderTimers = {}
    /\ userContext = [p \in PubKeys |-> ""]
    /\ uiEvents = <<>>
    /\ lastBatch = <<>>
    /\ delivered = 0
    /\ enqCount = [id \in EventIds |-> 0]
    /\ arrivals = [id \in EventIds |-> 0]
    /\ evicted = {}

----------------------------------------------------------------------------
\* processEvent, one listener per relay.

\* the chat named by the event's g tag, else by its d tag, else ""
eventChatOf(ev) ==
    LET gTag == TagFind(ev.Tags, "g")
        dTag == TagFind(ev.Tags, "d")
    IN  IF Len(gTag) > 1 THEN gTag[2]
        ELSE IF Len(dTag) > 1 THEN dTag[2]
        ELSE ""

\* a relevance test that holds for no chat
isRelevantToActiveView_never(eventChat) == FALSE

isRelevantToActiveView(eventChat) ==
    LET av == getActiveView
    IN  /\ av # NoView
        /\ IF av.IsGroup THEN SeqContains(av.Children, eventChat)
           ELSE av.Name = eventChat

streamKeyOf(eventChat) ==
    LET av == getActiveView
    IN  IF av # NoView /\ av.IsGroup /\ SeqContains(av.Children, eventChat)
        THEN <<"group", av.Name>>
        ELSE <<"chat", eventChat>>

\* no sender is taken as blocked
isBlockedUser_never(pubKey) == FALSE

\* for _, blockedUser := range c.config.BlockedUsers: ev.PubKey == blockedUser.PubKey
isBlockedUser(pubKey) == pubKey \in blockedUsers

\* the listener of relay r takes event ev off its subscription; processEvent
\* returns at once for a blocked sender
Receive(r, ev) ==
    /\ lpc[r] = "recv"
    /\ delivered < MaxDeliveries
    /\ delivered' = delivered + 1
    /\ IF isBlockedUser(ev.PubKey)
       THEN UNCHANGED <<lpc, lev, arrivals>>
       ELSE /\ lpc' = [lpc EXCEPT ![r] = "dedup"]
            /\ lev' = [lev EXCEPT ![r] = ev]
            /\ arrivals' = [arrivals EXCEPT ![ev.ID] = @ + 1]
    /\ UNCHANGED <<seenCache, orderBuf, orderTimers, userContext, uiEvents,
                   lastBatch, enqCount, evicted>>
    /\ UNCHANGED <<cfgVars, keyVars, permVars, powVars, mineVars, relayVars, extVars>>

\* the contains-check and the recording of the id, under seenCacheMu
Dedup(r) ==
    /\ lpc[r] = "dedup"
    /\ IF SeenContains(seenCache, lev[r].ID)
       THEN /\ lpc' = [lpc EXCEPT ![r] = "recv"]
            /\ lev' = [lev EXCEPT ![r] = NoEvent]
            /\ UNCHANGED <<seenCache, evicted>>
       ELSE /\ seenCache' = SeenCacheAdd(seenCache, lev[r].ID)
            /\ evicted' = evicted \cup
                   {seenCache[i] : i \in {j \in 1..Len(seenCache) :
                                             ~SeqContains(seenCache', seenCache[j])}}
            /\ lpc' = [lpc EXCEPT ![r] = "process"]
            /\ UNCHANGED lev
    /\ UNCHANGED <<orderBuf, orderTimers, userContext, uiEvents, lastBatch,
                   delivered, enqCount, arrivals>>
    /\ UNCHANGED <<cfgVars, keyVars, permVars, powVars, mineVars, relayVars, extVars>>

\* processEvent goes on to enqueueOrdered: chat tag, proof of work, mutes
\* and filters
processAccepts(ev) ==
    LET eventChat == eventChatOf(ev)
        powOk     == isRelevantToActiveView(eventChat) =>
                         isPoWValid(ev, effectivePoWForChat(eventChat))
        content   == sanitizeString(truncateString(ev.Content, MaxMsgLen))
    IN  /\ eventChat # ""
        /\ powOk
        /\ ~matchesAny(content, mutesCompiled)
        /\ (filtersCompiled # {} => matchesAny(content, filtersCompiled))

\* the rest of processEvent: chat tag, proof of work, mutes and filters,
\* user context, enqueueOrdered; timer is what the call does to the timers
\* of the runtime
ProcessWith(r, timer) ==
    /\ lpc[r] = "process"
    /\ LET ev        == lev[r]
           eventChat == eventChatOf(ev)
           key       == streamKeyOf(eventChat)
       IN  IF processAccepts(ev)
           THEN /\ userContext' = [userContext EXCEPT ![ev.PubKey] = eventChat]
                /\ orderBuf' = [orderBuf EXCEPT
                                   ![key] = EnqueueBuf(@, OrderItem(ev, r, eventChat))]
                /\ orderTimers' = orderTimers \cup {key}
                /\ enqCount' = [enqCount EXCEPT ![ev.ID] = @ + 1]
           ELSE UNCHANGED <<userContext, orderBuf, orderTimers, enqCount>>
    /\ timer
    /\ lpc' = [lpc EXCEPT ![r] = "recv"]
    /\ lev' = [lev EXCEPT ![r] = NoEvent]
    /\ UNCHANGED <<seenCache, uiEvents, lastBatch, delivered, arrivals, evicted>>
    /\ UNCHANGED <<cfgVars, keyVars, permVars, powVars, mineVars, relayVars, extRest, pubVars, callVars>>

\* the stream keys for which enqueueOrdered finds no timer in c.orderTimers
\* when the listener of relay r processes its event
timersCreated(r) ==
    IF processAccepts(lev[r])
    THEN {streamKeyOf(eventChatOf(lev[r]))} \ orderTimers
    ELSE {}

\* time.AfterFunc(orderingFlushDelay, ...) for the keys that had no timer
startTimers(created) ==
    afterFuncs' = [k \in StreamKeys |-> afterFuncs[k] + IF k \in created THEN 1 ELSE 0]

Process(r) == ProcessWith(r, UNCHANGED timerVars)

NewMessage(item) == [Type |-> "NEW_MESSAGE", ID |-> item.id, Chat |-> item.chat]

\* flushOrdered(k), run by a timer that fires
FlushOrderedWith(k, fires, timer) ==
    /\ fires
    /\ orderBuf' = [orderBuf EXCEPT ![k] = <<>>]
    /\ orderTimers' = orderTimers \ {k}
    /\ LET batch == SortItems(orderBuf[k])
       IN  /\ lastBatch' = IF batch = <<>> THEN lastBatch ELSE batch
           /\ uiEvents' = uiEvents \o [i \in 1..Len(batch) |-> NewMessage(batch[i])]
    /\ timer
    /\ UNCHANGED <<seenCache, lpc, lev, userContext, delivered, enqCount,
                   arrivals, evicted>>
    /\ UNCHANGED <<cfgVars, keyVars, permVars, powVars, mineVars, relayVars, extRest, pubVars, callVars>>

\* the flush timer of stream key k fires: flushOrdered(k)
FlushOrdered(k) == FlushOrderedWith(k, k \in orderTimers, UNCHANGED timerVars)

IdlePerm ==
    /\ permSet = {}
    /\ permRem = [c \in {1, 2} |-> {}]
    /\ permBuf = [c \in {1, 2} |-> <<>>]
    /\ permOut = [c \in {1, 2} |-> <<>>]
    /\ permDone = {}
    /\ permArrival = [c \in {1, 2} |-> <<>>]

IdlePoW ==
    /\ powEvent = NoEvent
    /\ powMin = 0
    /\ powResult = FALSE
    /\ powDone = FALSE

NoMined ==
    [ev |-> [ID |-> <<>>, PubKey |-> 0, CreatedAt |-> 0, Tags |-> <<>>, Content |-> <<>>],
     difficulty |-> 0, targetChat |-> ""]

IdleMine ==
    /\ cancelled = FALSE
    /\ mpc = "idle"
    /\ mEv = NoMined
    /\ nonceCounter = 0
    /\ published = {}
    /\ cancelWhileMining = FALSE
    /\ switchWhileMining = FALSE
    /\ sinceCancel = 0

\* number of manageRelayConnection goroutines of a run
MaxConns == 2

\* number of subscriptions of a managed relay
MaxSubs == 2

\* number of updateRelaySubscriptions calls of a run
MaxCalls == 3

RelayIndex(url) == IF url = "r1" THEN 1 ELSE 2
ConnIds == 1..MaxConns
\* the goroutines: one replaceSubscription task per URL, then the connections
TaskId(url) == RelayIndex(url)
ConnRep(j) == Cardinality(Relays) + j
RepIds == 1..(Cardinality(Relays) + MaxConns)

NoRep == [pc |-> "none", url |-> "", mr |-> 0, chats |-> <<>>, newSub |-> 0,
          oldSub |-> 0, hadLive |-> FALSE]

NoHist == [idemClaim |-> FALSE, idemQuiet |-> FALSE, reordered |-> FALSE,
           subscribes |-> 0, unsubs |-> 0, netFailed |-> FALSE, conns |-> 0]

IdleRelay ==
    /\ relays = [u \in Relays |-> 0]
    /\ mrSubscription = [m \in ConnIds |-> 0]
    /\ mrClosed = [m \in ConnIds |-> FALSE]
    /\ subs = [m \in ConnIds |-> <<>>]
    /\ failCache = {}
    /\ rpc = "idle"
    /\ desiredRelays = <<>>
    /\ reps = [i \in RepIds |-> NoRep]
    /\ nconns = 0
    /\ calls = 0
    /\ rhist = NoHist

\* number of subscriptions that relays close in a run
MaxCloses == 2

NoLis == [pc |-> "none", url |-> "", sub |-> 0, oldChats |-> <<>>, attempts |-> 0,
          exit |-> "", disc |-> FALSE, resubs |-> 0, reconnects |-> 0]

IdleListen ==
    /\ mrConnected = [m \in ConnIds |-> FALSE]
    /\ mrAttempts = [m \in ConnIds |-> 0]
    /\ lis = [m \in ConnIds |-> NoLis]
    /\ closedSubs = {}
    /\ discovered = {}
    /\ ncloses = 0

\* number of discoverOnAnchor, parseRelayEvent and verification goroutines
MaxParses == 2
MaxVerifs == 2
\* one task on the anchor and one per verified relay
MaxCrawls == MaxVerifs + 1

CrawlIds == 1..MaxCrawls
ParseIds == 1..MaxParses
VerifIds == 1..MaxVerifs

NoCrawl == [pc |-> "none", url |-> "", depth |-> 0]
NoParse == [pc |-> "none", urls |-> <<>>, depth |-> 0, url |-> "", since |-> {},
            skipped |-> ""]
NoVerif == [pc |-> "none", url |-> "", depth |-> 0, ok |-> FALSE, later |-> FALSE]
NoCrawlHist == [connDepths |-> {}, verified |-> {}, connected |-> {}]

IdleCrawl ==
    /\ activeDiscoveries = 0
    /\ crawl = [i \in CrawlIds |-> NoCrawl]
    /\ parsers = [i \in ParseIds |-> NoParse]
    /\ verifs = [i \in VerifIds |-> NoVerif]
    /\ verifying = {}
    /\ chist = NoCrawlHist

IdleShut ==
    /\ spc = "run"
    /\ flushers = {}

NoSend == [message |-> "", inGroup |-> FALSE]

IdleSend == sendMsg = NoSend

IdleLock ==
    /\ relaysMu = 0
    /\ mrMu = <<>>
    /\ ltask = <<>>
    /\ chanLen = 0
    /\ lockTable = {}

IdleBackoff ==
    /\ rbPc = "none"
    /\ rbAttempt = 0
    /\ rbDelay = <<>>

IdleTimer == afterFuncs = [k \in StreamKeys |-> 0]

IdleCall ==
    /\ callPc = "none"
    /\ callArgs = <<>>
    /\ callResult = <<>>

IdlePub ==
    /\ pubPc = "none"
    /\ pubRelays = {}
    /\ pubLeft = {}
    /\ pubLog = {}

IdleExt ==
    IdleListen /\ IdleCrawl /\ IdleShut /\ IdleSend /\ IdleLock /\ IdleBackoff
        /\ IdleTimer /\ IdlePub /\ IdleCall

Init == InitConfigIngest /\ InitIngest /\ IdlePerm /\ IdlePoW /\ IdleMine /\ IdleRelay
            /\ IdleExt

Next ==
    \/ \E r \in Relays, ev \in InboundEvents : Receive(r, ev)
    \/ \E r \in Relays : Dedup(r)
    \/ \E r \in Relays : Process(r)
    \/ \E k \in StreamKeys : FlushOrdered(k)

Spec == Init /\ [][Next]_vars

----------------------------------------------------------------------------
\* Dedup and ordering of the ingestion pipeline.

\* C1: an event id that the seen-cache has not evicted is enqueued for
\* display at most once, whatever the relays deliver and however the
\* listeners interleave.
C1_AtMostOneEnqueuePerId ==
    \A id \in EventIds : id \notin evicted => enqCount[id] <= 1

\* an id arrived twice, was enqueued once, and every listener is idle again
C1_DuplicateDropped ==
    \E id \in EventIds :
        /\ arrivals[id] >= 2
        /\ enqCount[id] = 1
        /\ id \notin evicted
        /\ \A r \in Relays : lpc[r] = "recv"

\* (createdAt, id) of x is not greater than that of y
KeyLeq(x, y) ==
    \/ x.createdAt < y.createdAt
    \/ x.createdAt = y.createdAt /\ (x.id = y.id \/ StrLess(x.id, y.id))

\* C2: the items one flush emits are in non-decreasing order of
\* (createdAt, id).
C2_BatchSorted ==
    \A i \in 1..(Len(lastBatch) - 1) : KeyLeq(lastBatch[i], lastBatch[i + 1])

\* a flush emitted two items with the same timestamp and different ids
C2_BatchWithTie ==
    /\ Len(lastBatch) >= 2
    /\ lastBatch[1].createdAt = lastBatch[2].createdAt
    /\ lastBatch[1].id # lastBatch[2].id
    /\ Len(uiEvents) >= 2

\* the chat of ev is the active chat or a child of the active group, and the
\* difficulty required of that chat is positive and not met by ev
FailsRequiredPoW(ev) ==
    LET chat == eventChatOf(ev)
        av   == getActiveView
    IN  /\ chat # ""
        /\ av # NoView
        /\ \/ ~av.IsGroup /\ av.Name = chat
           \/ av.IsGroup /\ \E i \in 1..Len(av.Children) : av.Children[i] = chat
        /\ effectivePoWForChat(chat) > 0
        /\ ~isPoWValid(ev, effectivePoWForChat(chat))

\* C21: an inbound event of a chat relevant to the active view whose
\* required difficulty d > 0 it does not meet (isPoWValid(event, d) is false)
\* is never enqueued for display and produces no display event of any type.
C21_InvalidPoWNeverDisplayed ==
    \A ev \in InboundEvents :
        FailsRequiredPoW(ev) =>
            /\ enqCount[ev.ID] = 0
            /\ \A k \in StreamKeys : \A i \in 1..Len(orderBuf[k]) :
                   orderBuf[k][i].id # ev.ID
            /\ \A i \in 1..Len(uiEvents) :
                   uiEvents[i].Type = "NEW_MESSAGE" /\ uiEvents[i].ID # ev.ID

\* an event failing the required difficulty went through processEvent and a
\* valid event of the same chat was displayed
C21_InvalidPoWProcessed ==
    \E ev \in InboundEvents, ok \in InboundEvents :
        /\ FailsRequiredPoW(ev)
        /\ arrivals[ev.ID] >= 1
        /\ \A r \in Relays : lpc[r] = "recv"
        /\ eventChatOf(ok) = eventChatOf(ev)
        /\ \E i \in 1..Len(uiEvents) : uiEvents[i].ID = ok.ID

\* C26: the ordering buffer of a stream key never holds more than
\* perStreamBufferMax items: an enqueue that finds the buffer full drops the
\* oldest item and appends the new one, in one step of the listener.
C26_BufferWithinCapacity ==
    [][\A k \in StreamKeys :
           /\ Len(orderBuf'[k]) <= perStreamBufferMax
           /\ (Len(orderBuf[k]) = perStreamBufferMax /\ orderBuf'[k] # orderBuf[k]
                  /\ orderBuf'[k] # <<>>)
              => /\ Len(orderBuf'[k]) = perStreamBufferMax
                 /\ SubSeq(orderBuf'[k], 1, perStreamBufferMax - 1) = Tail(orderBuf[k])
                 /\ \E r \in Relays :
                        /\ lpc[r] = "process" /\ lpc'[r] = "recv"
                        /\ orderBuf'[k][perStreamBufferMax].id = lev[r].ID]_vars

\* a full buffer whose oldest item was dropped: an enqueued event is neither
\* buffered nor displayed
C26_OldestDropped ==
    \E k \in StreamKeys, id \in EventIds :
        /\ Len(orderBuf[k]) = perStreamBufferMax
        /\ enqCount[id] = 1
        /\ \A j \in StreamKeys : \A i \in 1..Len(orderBuf[j]) : orderBuf[j][i].id # id
        /\ \A i \in 1..Len(uiEvents) : uiEvents[i].ID # id

----------------------------------------------------------------------------
\* One set of events enqueued for one stream key in two arrival orders.

\* (createdAt, id) pairs: two timestamps, two ids on each
OrderPool ==
    { [createdAt |-> 1, id |-> <<48, 51>>, relay |-> "r1", chat |-> "a"],
      [createdAt |-> 1, id |-> <<48, 53>>, relay |-> "r2", chat |-> "a"],
      [createdAt |-> 2, id |-> <<48, 49>>, relay |-> "r1", chat |-> "a"],
      [createdAt |-> 2, id |-> <<48, 97>>, relay |-> "r2", chat |-> "a"] }

InitPerm ==
    /\ permSet \in (SUBSET OrderPool) \ {{}}
    /\ permRem = [c \in {1, 2} |-> permSet]
    /\ permBuf = [c \in {1, 2} |-> <<>>]
    /\ permOut = [c \in {1, 2} |-> <<>>]
    /\ permDone = {}
    /\ permArrival = [c \in {1, 2} |-> <<>>]

\* enqueueOrdered of the next arrival of copy c
PermEnqueue(c, item) ==
    /\ item \in permRem[c]
    /\ permRem' = [permRem EXCEPT ![c] = @ \ {item}]
    /\ permBuf' = [permBuf EXCEPT ![c] = EnqueueBuf(@, item)]
    /\ permArrival' = [permArrival EXCEPT ![c] = Append(@, item)]
    /\ UNCHANGED <<permSet, permOut, permDone>>
    /\ UNCHANGED <<cfgVars, keyVars, ingestVars, powVars, mineVars, relayVars, extVars>>

\* flushOrdered of copy c, after its last arrival
PermFlush(c) ==
    /\ permRem[c] = {}
    /\ c \notin permDone
    /\ permOut' = [permOut EXCEPT ![c] = SortItems(permBuf[c])]
    /\ permBuf' = [permBuf EXCEPT ![c] = <<>>]
    /\ permDone' = permDone \cup {c}
    /\ UNCHANGED <<permSet, permRem, permArrival>>
    /\ UNCHANGED <<cfgVars, keyVars, ingestVars, powVars, mineVars, relayVars, extVars>>

InitOrder ==
    /\ InitConfigIngest /\ activeViewName = "a"
    /\ InitIngest
    /\ InitPerm
    /\ IdlePoW
    /\ IdleMine
    /\ IdleRelay
    /\ IdleExt

NextOrder ==
    \/ \E c \in {1, 2}, item \in OrderPool : PermEnqueue(c, item)
    \/ \E c \in {1, 2} : PermFlush(c)

SpecOrder == InitOrder /\ [][NextOrder]_vars

\* C3 as stated: the flush emits the same sequence for every arrival order
\* of a fixed set of events.
C3_SameOutputForEveryArrivalOrder ==
    permDone = {1, 2} => permOut[1] = permOut[2]

\* C3, amended: for a set of at most perStreamBufferMax events the flush
\* emits the same sequence for every arrival order.
C3_SameOutputWithoutOverflow ==
    (permDone = {1, 2} /\ Cardinality(permSet) <= perStreamBufferMax)
        => permOut[1] = permOut[2]

\* two different arrival orders of a set with equal timestamps were flushed
C3_TwoArrivalOrdersFlushed ==
    /\ permDone = {1, 2}
    /\ Cardinality(permSet) >= 2
    /\ Cardinality(permSet) <= perStreamBufferMax
    /\ permArrival[1] # permArrival[2]
    /\ \E x, y \in permSet : x # y /\ x.createdAt = y.createdAt
    /\ Len(permOut[1]) = Cardinality(permSet)

----------------------------------------------------------------------------
\* isPoWValid on events with zero, one or two nonce tags.

\* the declared difficulties of the model with the integer each one denotes
\* (num is FALSE for a string that is no number)
DeclaredTable ==
    { [str |-> <<52>>,         num |-> TRUE,  val |-> 4],     \* "4"
      [str |-> <<32, 51, 32>>, num |-> TRUE,  val |-> 3],     \* " 3 "
      [str |-> <<43, 50>>,     num |-> TRUE,  val |-> 2],     \* "+2"
      [str |-> <<49, 50>>,     num |-> TRUE,  val |-> 12],    \* "12"
      [str |-> <<45, 49>>,     num |-> TRUE,  val |-> -1],    \* "-1"
      [str |-> <<120>>,        num |-> FALSE, val |-> 0],     \* "x"
      [str |-> <<52, 120>>,    num |-> FALSE, val |-> 0],     \* "4x"
      [str |-> <<>>,           num |-> FALSE, val |-> 0] }    \* ""

DeclaredStrings == {d.str : d \in DeclaredTable}
DeclaredOf(str) == CHOOSE d \in DeclaredTable : d.str = str

\* tag lists: no nonce tag, a nonce tag without a difficulty, one nonce tag,
\* two nonce tags
PoWTagLists ==
    { << <<"d", "a">> >>, << <<"d", "a">>, <<"nonce", "0">> >>,
      << <<"nonce">> >> }
    \cup { << <<"d", "a">>, NonceTag(x) >> : x \in DeclaredStrings }
    \cup { << NonceTag(x), NonceTag(y) >> : x, y \in {<<52>>, <<43, 50>>, <<120>>} }
    \cup { << NonceTag(<<52>>), <<"nonce">> >>, << NonceTag(<<52>>), <<"nonce", "1">> >> }

\* ids "00", "05", "0a", "1f", "2b", "80"
PoWIds == { <<48, 48>>, <<48, 53>>, <<48, 97>>, <<49, 102>>, <<50, 98>>, <<56, 48>> }

MinDifficulties == -1..6

InitPoW ==
    /\ powEvent \in {InEvent(id, "u1", 1, tags, TxtHi) : id \in PoWIds, tags \in PoWTagLists}
    /\ powMin \in MinDifficulties
    /\ powResult = FALSE
    /\ powDone = FALSE

CheckPoW ==
    /\ ~powDone
    /\ powResult' = isPoWValid(powEvent, powMin)
    /\ powDone' = TRUE
    /\ UNCHANGED <<powEvent, powMin>>
    /\ UNCHANGED <<cfgVars, keyVars, ingestVars, permVars, mineVars, relayVars, extVars>>

InitPoWSpec ==
    /\ InitConfigIngest /\ activeViewName = "a"
    /\ InitIngest
    /\ IdlePerm
    /\ InitPoW
    /\ IdleMine
    /\ IdleRelay
    /\ IdleExt

NextPoW == CheckPoW

SpecPoW == InitPoWSpec /\ [][NextPoW]_vars

\* the value of a string of lower-case hex digits
RECURSIVE HexValue(_, _)
HexValue(s, acc) ==
    IF s = <<>> THEN acc
    ELSE HexValue(Tail(s), acc * 16 + (IF Head(s) <= 57 THEN Head(s) - 48 ELSE Head(s) - 87))

\* the number of leading zero bits of a value written with the given number of bits
LeadingZeroBits(v, width) ==
    CHOOSE n \in 0..width :
        /\ v < 2 ^ (width - n)
        /\ n < width => v >= 2 ^ (width - n - 1)

ActualDifficulty(ev) == LeadingZeroBits(HexValue(ev.ID, 0), 4 * Len(ev.ID))

\* tag t is a nonce tag that declares a number d >= min which the id achieves
DeclaresAchieved(ev, t, min) ==
    /\ Len(t) >= 3
    /\ t[1] = "nonce"
    /\ DeclaredOf(t[3]).num
    /\ DeclaredOf(t[3]).val >= min
    /\ ActualDifficulty(ev) >= DeclaredOf(t[3]).val

\* C4 as stated: valid iff minDifficulty <= 0 or the event carries a nonce
\* tag that declares a numeric difficulty >= minDifficulty that the leading
\* zero bits of the id achieve.
C4_ValidIffSomeNonceTag ==
    powDone =>
        (powResult <=>
            \/ powMin <= 0
            \/ \E i \in 1..Len(powEvent.Tags) :
                   DeclaresAchieved(powEvent, powEvent.Tags[i], powMin))

\* the index of the last tag named nonce that has at least two elements
LastNonceIndex(tags) ==
    LET named == {i \in 1..Len(tags) : Len(tags[i]) >= 2 /\ tags[i][1] = "nonce"}
    IN  IF named = {} THEN 0 ELSE CHOOSE i \in named : \A j \in named : j <= i

\* C4, amended: valid iff minDifficulty <= 0 or the last nonce tag of the
\* event (the last tag named nonce with at least two elements) declares a
\* numeric difficulty >= minDifficulty that the leading zero bits of the id
\* achieve.
C4_ValidIffLastNonceTag ==
    powDone =>
        (powResult <=>
            \/ powMin <= 0
            \/ /\ LastNonceIndex(powEvent.Tags) > 0
               /\ DeclaresAchieved(powEvent,
                                   powEvent.Tags[LastNonceIndex(powEvent.Tags)], powMin))

\* a checked event with two nonce tags, accepted at a positive difficulty
C4_AcceptedWithTwoNonceTags ==
    /\ powDone
    /\ powResult
    /\ powMin > 0
    /\ Cardinality({i \in 1..Len(powEvent.Tags) : powEvent.Tags[i][1] = "nonce"}) = 2

----------------------------------------------------------------------------
\* The view list: join, group, leave, delete, activate.

DE(type, content) == [Type |-> type, Content |-> content]

Result(vs, active, events) ==
    [views |-> vs, active |-> active, events |-> events, resub |-> FALSE]

HasView(vs, name) == \E i \in 1..Len(vs) : vs[i].Name = name

\* a state update that leaves the active name as the handler set it
sendStateUpdate_asSet(r) == Result(r.views, r.active, Append(r.events, DE("STATE_UPDATE", "")))

\* sendStateUpdate: an active name that names no view falls back to the first view
sendStateUpdate(r) ==
    Result(r.views,
           IF ~HasView(r.views, r.active) /\ Len(r.views) > 0
           THEN r.views[1].Name ELSE r.active,
           Append(r.events, DE("STATE_UPDATE", "")))

\* the chats of the active view
activeChats(vs, active) ==
    LET av == getActiveViewOf(vs, active)
    IN  IF av = NoView THEN {}
        ELSE IF av.IsGroup THEN {av.Children[i] : i \in 1..Len(av.Children)}
        ELSE IF av.Name # "" THEN {av.Name}
        ELSE {}

\* updateAllSubscriptions: the status event it emits; the reconciliation
\* itself is updateRelaySubscriptions
updateAllSubscriptions(r) ==
    [r EXCEPT !.resub = TRUE,
              !.events = Append(@, IF activeChats(r.views, r.active) = {}
                                   THEN DE("STATUS", "No active chat/group.")
                                   ELSE DE("STATUS", "Updating subscriptions"))]

\* geohash.Validate(name) = nil on the names of the model: b, c and u4 are
\* written in the geohash alphabet
geohashValid(name) == name \in {"b", "c", "u4"}

\* normalizeAndValidateChatName on the names of the model
normalizeAndValidateChatName(name) ==
    CASE name = "B"  -> [err |-> FALSE, name |-> "b"]
      [] name = "x!" -> [err |-> TRUE, name |-> ""]
      [] name = "-"  -> [err |-> FALSE, name |-> ""]
      [] OTHER       -> [err |-> FALSE, name |-> name]

\* utf8.RuneCountInString(normalizedName) > maxChatNameLen
tooLong(name) == name = "averyverylongname"

\* the names a join-chats payload is made of
JoinNames == {"a", "B", "b", "c", "x!", "-", "averyverylongname"}

\* one round of the loop of joinChats
joinOne(st, raw) ==
    LET norm  == normalizeAndValidateChatName(raw)
        name  == IF geohashValid(raw) THEN raw ELSE norm.name
        known == \E i \in 1..Len(st.views) :
                     ~st.views[i].IsGroup /\ st.views[i].Name = name
    IN  IF ~geohashValid(raw) /\ norm.err
        THEN [st EXCEPT !.events = Append(@, DE("ERROR", "invalid character"))]
        ELSE IF ~geohashValid(raw) /\ tooLong(norm.name)
        THEN [st EXCEPT !.events = Append(@, DE("ERROR", "too long"))]
        ELSE IF ~geohashValid(raw) /\ norm.name = ""
        THEN st
        ELSE IF known
        THEN [st EXCEPT !.existing = Append(@, name)]
        ELSE [st EXCEPT !.views = Append(@, View(name, FALSE, <<>>, 0)),
                        !.active = IF Len(st.added) = 0 THEN name ELSE @,
                        !.added = Append(@, name)]

RECURSIVE joinLoop(_, _)
joinLoop(st, names) ==
    IF names = <<>> THEN st ELSE joinLoop(joinOne(st, Head(names)), Tail(names))

joinChats(vs, active, chatNames) ==
    LET st == joinLoop([views |-> vs, active |-> active, added |-> <<>>,
                        existing |-> <<>>, events |-> <<>>], chatNames)
    IN  IF Len(chatNames) = 0 THEN Result(vs, active, <<>>)
        ELSE IF Len(st.added) > 0
        THEN LET r == updateAllSubscriptions(
                          sendStateUpdate(Result(st.views, st.active, st.events)))
             IN  [r EXCEPT !.events = Append(@, DE("STATUS", "joined"))]
        ELSE IF Len(st.existing) > 0 /\ Len(chatNames) = Len(st.existing)
        THEN Result(st.views, st.active, Append(st.events, DE("STATUS", "already joined")))
        ELSE Result(st.views, st.active, st.events)

\* the members of a create-group payload, split at commas and trimmed
MemberNames == {"a", "b", "c", "zz", ""}

\* the loop of createGroup: empty and repeated members are skipped
RECURSIVE uniqueMembers(_, _)
uniqueMembers(raw, seen) ==
    IF raw = <<>> THEN <<>>
    ELSE IF Head(raw) = "" \/ Head(raw) \in seen THEN uniqueMembers(Tail(raw), seen)
    ELSE <<Head(raw)>> \o uniqueMembers(Tail(raw), seen \cup {Head(raw)})

\* sort.Strings on chat names
NameRank(name) == CASE name = "a" -> 1 [] name = "b" -> 2 [] name = "c" -> 3 [] OTHER -> 4

RECURSIVE sortStrings(_)
sortStrings(names) ==
    IF names = <<>> THEN <<>>
    ELSE LET least == CHOOSE i \in 1..Len(names) :
                          \A j \in 1..Len(names) : NameRank(names[i]) <= NameRank(names[j])
         IN  <<names[least]>> \o
             sortStrings([k \in 1..(Len(names) - 1) |->
                             IF k < least THEN names[k] ELSE names[k + 1]])

RECURSIVE joinStrings(_)
joinStrings(names) == IF names = <<>> THEN "" ELSE Head(names) \o joinStrings(Tail(names))

\* "Group-" and the digest of the joined member names
groupName(validMembers) == "Group-" \o joinStrings(validMembers)

createGroup(vs, active, rawMembers) ==
    LET existingChats == {vs[i].Name : i \in {j \in 1..Len(vs) : ~vs[j].IsGroup}}
        members       == uniqueMembers(rawMembers, {})
        validMembers  == sortStrings(SelectSeq(members, LAMBDA m : m \in existingChats))
        notFoundChats == SelectSeq(members, LAMBDA m : m \notin existingChats)
        name          == groupName(validMembers)
    IN  IF Len(notFoundChats) > 0
        THEN Result(vs, active, <<DE("ERROR", "chats not found")>>)
        ELSE IF Len(validMembers) < 2
        THEN Result(vs, active, <<DE("ERROR", "group requires two chats")>>)
        ELSE IF HasView(vs, name)
        THEN Result(vs, active, <<DE("ERROR", "group exists")>>)
        ELSE updateAllSubscriptions(sendStateUpdate(
                 Result(Append(vs, View(name, TRUE, validMembers, 0)), name, <<>>)))

leaveChat(vs, active, chatName) ==
    LET newViews   == SelectSeq(vs, LAMBDA v : ~(~v.IsGroup /\ v.Name = chatName))
        pruned     == [i \in 1..Len(newViews) |->
                          IF newViews[i].IsGroup
                          THEN [newViews[i] EXCEPT
                                   !.Children = SelectSeq(@, LAMBDA ch : ch # chatName)]
                          ELSE newViews[i]]
        finalViews == SelectSeq(pruned, LAMBDA v : ~v.IsGroup \/ Len(v.Children) >= 2)
    IN  updateAllSubscriptions(sendStateUpdate(
            Result(finalViews, IF active = chatName THEN "" ELSE active, <<>>)))

deleteGroup(vs, active, groupNm) ==
    updateAllSubscriptions(sendStateUpdate(
        Result(SelectSeq(vs, LAMBDA v : v.Name # groupNm),
               IF active = groupNm THEN "" ELSE active, <<>>)))

deleteView(vs, active, payload) ==
    LET av       == getActiveViewOf(vs, active)
        viewName == IF payload = "" THEN av.Name ELSE payload
        hits     == {i \in 1..Len(vs) : vs[i].Name = viewName}
    IN  IF payload = "" /\ av = NoView
        THEN Result(vs, active, <<DE("ERROR", "no active chat")>>)
        ELSE IF hits = {}
        THEN Result(vs, active, <<DE("ERROR", "not found")>>)
        ELSE IF vs[CHOOSE i \in hits : \A j \in hits : i <= j].IsGroup
        THEN LET r == deleteGroup(vs, active, viewName)
             IN  [r EXCEPT !.events = Append(@, DE("STATUS", "group deleted"))]
        ELSE LET r == leaveChat(vs, active, viewName)
             IN  [r EXCEPT !.events = Append(@, DE("STATUS", "left chat"))]

----------------------------------------------------------------------------
\* Keys.

\* number of key pairs of the model
MaxKeys == 3

Keys == 1..MaxKeys

\* nostr.GeneratePrivateKey: a key pair that was never generated before; the
\* key pairs are numbered in the order of their generation
freshKey(used) == 1 + (CHOOSE k \in used : \A j \in used : j <= k)

\* the key pairs some part of the client holds
keysInUse ==
    {mainKey} \cup {chatKeys[c] : c \in ChatNames} \cup {mEv.ev.PubKey}
        \cup {e.ev.PubKey : e \in published}

\* the session of a chat is created when the chat becomes the active view
ensureChatSession(keys, vs, name, used) ==
    IF name \in ChatNames /\ keys[name] = 0
          /\ \E i \in 1..Len(vs) : vs[i].Name = name /\ ~vs[i].IsGroup
    THEN [keys EXCEPT ![name] = freshKey(used)]
    ELSE keys

\* the session of a chat is destroyed when the chat is left
dropChatSession(keys, name) ==
    IF name \in ChatNames THEN [keys EXCEPT ![name] = 0] ELSE keys

----------------------------------------------------------------------------
\* The handlers of the user actions (handleAction). The reconciliation of
\* the relay subscriptions that a handler ends with (updateAllSubscriptions)
\* acts on the relay table alone.

\* the orders in which flushAllOrdering may visit the keys it collected
KeyOrders(keys) ==
    {f \in [1..Cardinality(keys) -> keys] :
        \A i, j \in 1..Cardinality(keys) : i # j => f[i] # f[j]}

RECURSIVE batchesOf(_, _)
batchesOf(order, buf) ==
    IF order = <<>> THEN <<>>
    ELSE LET batch == SortItems(buf[Head(order)])
         IN  [i \in 1..Len(batch) |-> NewMessage(batch[i])] \o batchesOf(Tail(order), buf)

\* flushAllOrdering: flushOrdered of every key that has a timer
flushAllOrdering ==
    \E order \in KeyOrders(orderTimers) :
        /\ uiEvents' = uiEvents \o batchesOf(order, orderBuf)
        /\ orderBuf' = [k \in StreamKeys |-> IF k \in orderTimers THEN <<>> ELSE orderBuf[k]]
        /\ orderTimers' = {}
        /\ lastBatch' = IF order = <<>> THEN lastBatch
                        ELSE SortItems(orderBuf[order[Len(order)]])

ingestRest == <<seenCache, lpc, lev, userContext, delivered, enqCount, arrivals, evicted>>

\* the mining loop is between its first and its last round
mining == mpc = "mine"

\* ACTIVATE_VIEW: setActiveView, flushAllOrdering, updateAllSubscriptions;
\* update is what the handler does to the relay connections
ActivateViewWith(name, update) ==
    /\ ~cancelled
    /\ rpc = "idle"
    /\ LET status == IF activeChats(views, IF HasView(views, name) THEN name
                                           ELSE activeViewName) = {}
                     THEN DE("STATUS", "No active chat/group.")
                     ELSE DE("STATUS", "Updating subscriptions")
       IN  IF ~HasView(views, name)
           THEN /\ lastEmitted' = <<DE("ERROR", "not found"), status>>
                /\ UNCHANGED <<views, activeViewName, mainKey, chatKeys, switchWhileMining>>
           ELSE /\ mainKey' = freshKey(keysInUse)
                /\ chatKeys' = ensureChatSession(chatKeys, views, name,
                                                 keysInUse \cup {mainKey'})
                /\ mainKey' \in Keys
                /\ \A c \in ChatNames : chatKeys'[c] \in Keys \cup {0}
                /\ activeViewName' = name
                /\ lastEmitted' = <<DE("STATE_UPDATE", ""), DE("STATUS", "new identity"),
                                    status>>
                /\ switchWhileMining' =
                       (switchWhileMining \/ (mining /\ activeViewName = mEv.targetChat
                                                     /\ name # activeViewName))
                /\ UNCHANGED views
    /\ flushAllOrdering
    /\ update
    /\ UNCHANGED <<blockedUsers, mutes, filters>>
    /\ UNCHANGED ingestRest
    /\ UNCHANGED <<cancelled, mpc, mEv, nonceCounter, published, cancelWhileMining,
                   sinceCancel>>
    /\ UNCHANGED <<permVars, powVars, extVars>>

\* what a handler that only rewrites the view list leaves alone
viewHandlerFrame ==
    /\ UNCHANGED <<blockedUsers, mutes, filters, mainKey>>
    /\ UNCHANGED <<ingestVars, permVars, powVars, mineVars, extVars>>

\* number of views the configuration of the model holds
MaxViews == 4

\* the handler's writes to the configuration and its events; update is what
\* it does to the relay connections when it reaches updateAllSubscriptions
applyResult(r, update) ==
    /\ ~cancelled
    /\ rpc = "idle"
    /\ Len(r.views) <= MaxViews
    /\ views' = r.views
    /\ activeViewName' = r.active
    /\ lastEmitted' = r.events
    /\ IF r.resub THEN update ELSE UNCHANGED relayVars

\* JOIN_CHATS
JoinChatsWith(chatNames, update) ==
    /\ applyResult(joinChats(views, activeViewName, chatNames), update)
    /\ UNCHANGED chatKeys
    /\ viewHandlerFrame

\* CREATE_GROUP
CreateGroupWith(rawMembers, update) ==
    /\ applyResult(createGroup(views, activeViewName, rawMembers), update)
    /\ UNCHANGED chatKeys
    /\ viewHandlerFrame

\* LEAVE_CHAT
LeaveChatWith(chatName, update) ==
    /\ applyResult(leaveChat(views, activeViewName, chatName), update)
    /\ chatKeys' = dropChatSession(chatKeys, chatName)
    /\ viewHandlerFrame

\* DELETE_GROUP
DeleteGroupWith(groupNm, update) ==
    /\ applyResult(deleteGroup(views, activeViewName, groupNm), update)
    /\ UNCHANGED chatKeys
    /\ viewHandlerFrame

\* DELETE_VIEW
DeleteViewWith(payload, update) ==
    /\ applyResult(deleteView(views, activeViewName, payload), update)
    /\ chatKeys' = LET target == IF payload = ""
                                 THEN getActiveViewOf(views, activeViewName).Name
                                 ELSE payload
                   IN  IF \E i \in 1..Len(views) : views[i].Name = target /\ ~views[i].IsGroup
                       THEN dropChatSession(chatKeys, target) ELSE chatKeys
    /\ viewHandlerFrame

\* the handlers with the relay connections left aside
ActivateView(name) == ActivateViewWith(name, UNCHANGED relayVars)
JoinChats(chatNames) == JoinChatsWith(chatNames, UNCHANGED relayVars)
CreateGroup(rawMembers) == CreateGroupWith(rawMembers, UNCHANGED relayVars)
LeaveChat(chatName) == LeaveChatWith(chatName, UNCHANGED relayVars)
DeleteGroup(groupNm) == DeleteGroupWith(groupNm, UNCHANGED relayVars)
DeleteView(payload) == DeleteViewWith(payload, UNCHANGED relayVars)

\* the payloads of the model
JoinPayloads ==
    {<<x>> : x \in JoinNames} \cup {<<"a", "B">>, <<"a", "c">>, <<"c", "x!">>}
GroupPayloads ==
    { <<"a", "b">>, <<"b", "a">>, <<"a", "c">>, <<"b", "c">>, <<"a", "b", "c">>,
      <<"a", "a">>, <<"a", "zz">>, <<"a">>, <<"a", "", "b">> }
NamePayloads == ViewNames \cup {"zz"}

InitState ==
    /\ views = <<>>
    /\ activeViewName = ""
    /\ blockedUsers = {}
    /\ mutes = <<>>
    /\ filters = <<>>
    /\ mainKey = 1
    /\ chatKeys = [c \in ChatNames |-> 0]
    /\ lastEmitted = <<DE("STATUS", "initial identity"), DE("STATE_UPDATE", "")>>
    /\ InitIngest
    /\ IdlePerm
    /\ IdlePoW
    /\ IdleMine
    /\ IdleRelay
    /\ IdleExt

NextState ==
    \/ \E p \in JoinPayloads : JoinChats(p)
    \/ \E p \in GroupPayloads : CreateGroup(p)
    \/ \E n \in NamePayloads : LeaveChat(n)
    \/ \E n \in NamePayloads : DeleteGroup(n)
    \/ \E n \in NamePayloads \cup {""} : DeleteView(n)
    \/ \E n \in NamePayloads : ActivateView(n)

SpecState == InitState /\ [][NextState]_vars

\* the children of group view v are at least two distinct names, each the
\* name of a chat view of vs
groupWellFormed(vs, v) ==
    /\ Len(v.Children) >= 2
    /\ \A i, j \in 1..Len(v.Children) : i # j => v.Children[i] # v.Children[j]
    /\ \A i \in 1..Len(v.Children) :
           \E k \in 1..Len(vs) : ~vs[k].IsGroup /\ vs[k].Name = v.Children[i]

\* C9: after any sequence of join-chats, create-group, leave-chat,
\* delete-group and delete-view actions every group view lists at least two
\* distinct children, each the name of an existing non-group chat.
C9_GroupsWellFormed ==
    \A i \in 1..Len(views) : views[i].IsGroup => groupWellFormed(views, views[i])


----------------------------------------------------------------------------
\* Rejected input: the proof-of-work difficulty, the filter and mute lists,
\* and the view handlers above.

\* a setPoW that stores the number it parsed before it tests its sign
setPoW_stored(vs, active, difficultyStr) ==
    LET difficulty == Atoi(TrimSpace(difficultyStr))
        activeView == getActiveViewOf(vs, active)
        hits       == {i \in 1..Len(vs) : vs[i].Name = activeView.Name}
        first      == CHOOSE i \in hits : \A j \in hits : i <= j
        stored     == IF activeView = NoView THEN vs
                      ELSE [vs EXCEPT ![first].PoW = difficulty.val]
    IN  IF difficulty.err
        THEN Result(vs, active, <<DE("ERROR", "must be a number")>>)
        ELSE IF difficulty.val < 0
        THEN Result(stored, active, <<DE("ERROR", "cannot be negative")>>)
        ELSE IF activeView = NoView
        THEN Result(vs, active, <<DE("ERROR", "no active chat/group")>>)
        ELSE LET r == sendStateUpdate(Result(stored, active, <<>>))
             IN  [r EXCEPT !.events = Append(@, DE("STATUS", "difficulty set"))]

\* setPoW: the difficulty of the active view
setPoW(vs, active, difficultyStr) ==
    LET difficulty == Atoi(TrimSpace(difficultyStr))
        activeView == getActiveViewOf(vs, active)
        hits       == {i \in 1..Len(vs) : vs[i].Name = activeView.Name}
        first      == CHOOSE i \in hits : \A j \in hits : i <= j
    IN  IF difficulty.err
        THEN Result(vs, active, <<DE("ERROR", "must be a number")>>)
        ELSE IF difficulty.val < 0
        THEN Result(vs, active, <<DE("ERROR", "cannot be negative")>>)
        ELSE IF activeView = NoView
        THEN Result(vs, active, <<DE("ERROR", "no active chat/group")>>)
        ELSE LET r == sendStateUpdate(
                          Result([vs EXCEPT ![first].PoW = difficulty.val], active, <<>>))
             IN  [r EXCEPT !.events = Append(@, DE("STATUS", "difficulty set"))]

\* number of entries of the filter list and of the mute list
MaxFilters == 2

ListResult(list, events) == [list |-> list, events |-> events]

\* toggleFilter / toggleMute
toggleFilter(list, idx) ==
    IF idx < 1 \/ idx > Len(list)
    THEN ListResult(list, <<DE("ERROR", "invalid number")>>)
    ELSE ListResult([list EXCEPT ![idx].Enabled = ~@], <<DE("STATUS", "toggled")>>)

\* handleFilter / handleMute: list, toggle by number, or add a pattern
handleFilter(list, payload) ==
    IF payload = <<>> THEN ListResult(list, <<DE("INFO", "list")>>)
    ELSE IF ~Atoi(payload).err THEN toggleFilter(list, Atoi(payload).val)
    ELSE ListResult(Append(list, [Pattern |-> payload, Enabled |-> TRUE]),
                    <<DE("STATUS", "added")>>)

\* removeFilter / removeMute: clear the list, or remove one entry by number
removeFilter(list, p) ==
    LET idx == Atoi(p)
    IN  IF p = <<>> THEN ListResult(<<>>, <<DE("STATUS", "cleared")>>)
        ELSE IF idx.err \/ idx.val < 1 \/ idx.val > Len(list)
        THEN ListResult(list, <<DE("ERROR", "invalid number")>>)
        ELSE ListResult(SubSeq(list, 1, idx.val - 1) \o SubSeq(list, idx.val + 1, Len(list)),
                        <<DE("STATUS", "removed")>>)

\* what a handler of the difficulty or of the lists leaves alone
inputFrame ==
    /\ UNCHANGED <<blockedUsers, mainKey, chatKeys>>
    /\ UNCHANGED <<ingestVars, permVars, powVars, mineVars, relayVars, extVars>>

\* SET_POW
SetPoW(difficultyStr) ==
    /\ LET r == setPoW(views, activeViewName, difficultyStr)
       IN  /\ views' = r.views
           /\ activeViewName' = r.active
           /\ lastEmitted' = r.events
    /\ UNCHANGED <<filters, mutes>>
    /\ inputFrame

\* HANDLE_FILTER
HandleFilter(payload) ==
    /\ LET r == handleFilter(filters, payload)
       IN  /\ Len(r.list) <= MaxFilters
           /\ filters' = r.list
           /\ lastEmitted' = r.events
    /\ UNCHANGED <<views, activeViewName, mutes>>
    /\ inputFrame

\* REMOVE_FILTER
RemoveFilter(p) ==
    /\ LET r == removeFilter(filters, p)
       IN  /\ filters' = r.list
           /\ lastEmitted' = r.events
    /\ UNCHANGED <<views, activeViewName, mutes>>
    /\ inputFrame

\* HANDLE_MUTE
HandleMute(payload) ==
    /\ LET r == handleFilter(mutes, payload)
       IN  /\ Len(r.list) <= MaxFilters
           /\ mutes' = r.list
           /\ lastEmitted' = r.events
    /\ UNCHANGED <<views, activeViewName, filters>>
    /\ inputFrame

\* REMOVE_MUTE
RemoveMute(p) ==
    /\ LET r == removeFilter(mutes, p)
       IN  /\ mutes' = r.list
           /\ lastEmitted' = r.events
    /\ UNCHANGED <<views, activeViewName, filters>>
    /\ inputFrame

\* the payloads of the model: " 4 ", "-1", "x"
PoWPayloads == {<<32, 52, 32>>, <<45, 49>>, <<120>>}
\* "1", "3", "0", "spam"
FilterPayloads == {<<49>>, <<51>>, <<48>>, TxtSpam}
\* "1", "-1"
MutePayloads == {<<49>>, <<45, 49>>}

InitInput ==
    /\ views = <<>>
    /\ activeViewName = ""
    /\ blockedUsers = {}
    /\ mutes = << [Pattern |-> TxtSpam, Enabled |-> TRUE] >>
    /\ filters = <<>>
    /\ mainKey = 1
    /\ chatKeys = [c \in ChatNames |-> 0]
    /\ lastEmitted = <<DE("STATUS", "initial identity"), DE("STATE_UPDATE", "")>>
    /\ InitIngest
    /\ IdlePerm
    /\ IdlePoW
    /\ IdleMine
    /\ IdleRelay
    /\ IdleExt

NextInput ==
    \/ \E p \in {<<"x!">>, <<"c", "x!">>, <<"averyverylongname", "a">>} :
           JoinChats(p)
    \/ \E p \in {<<"a", "c">>, <<"a", "zz">>, <<"a">>} : CreateGroup(p)
    \/ \E n \in {"a", "zz"} : ActivateView(n)
    \/ \E s \in PoWPayloads : SetPoW(s)
    \/ \E p \in FilterPayloads : HandleFilter(p)
    \/ \E p \in FilterPayloads : RemoveFilter(p)
    \/ \E p \in MutePayloads : HandleMute(p)
    \/ \E p \in MutePayloads : RemoveMute(p)

SpecInput == InitInput /\ [][NextInput]_vars

HasError(events) == \E i \in 1..Len(events) : events[i].Type = "ERROR"

\* a chat name joinChats accepts
validChatName(name) ==
    \/ geohashValid(name)
    \/ /\ ~normalizeAndValidateChatName(name).err
       /\ ~tooLong(name)
       /\ name # ""

\* only chats with accepted names were appended to the views, and the first
\* of them became the active view
joinedOnly ==
    /\ Len(views') > Len(views)
    /\ SubSeq(views', 1, Len(views)) = views
    /\ \A i \in (Len(views) + 1)..Len(views') :
           /\ ~views'[i].IsGroup
           /\ validChatName(views'[i].Name)
    /\ activeViewName' = views'[Len(views) + 1].Name

\* C22 (as stated): a user action that emits an ERROR event for invalid input
\* leaves the views, the active view, the difficulties, the filters and the
\* mutes exactly as they were.
C22_RejectedLeavesConfig ==
    [][HasError(lastEmitted') =>
           UNCHANGED <<views, activeViewName, filters, mutes>>]_vars

\* C22: a user action that emits an ERROR event for invalid input leaves the
\* filters and the mutes as they were, and leaves the views, the active view
\* and the difficulties as they were unless it is a join-chats action: that
\* one skips each rejected name and still joins the accepted names.
C22_RejectedNameSkipped ==
    [][HasError(lastEmitted') =>
           /\ UNCHANGED <<filters, mutes>>
           /\ UNCHANGED <<views, activeViewName>> \/ joinedOnly]_vars

\* a negative difficulty was rejected for a configuration that holds a view
\* with a difficulty, a group and a filter
C22_NegativeRejected ==
    /\ lastEmitted = <<DE("ERROR", "cannot be negative")>>
    /\ \E i \in 1..Len(views) : views[i].PoW > 0
    /\ \E i \in 1..Len(views) : views[i].IsGroup
    /\ filters # <<>>

----------------------------------------------------------------------------
\* The flush timers: enqueueOrdered starts a timer with time.AfterFunc and
\* enters it in c.orderTimers; flushOrdered deletes the entry.

\* the events of the timer runs: two of chat a, one of chat b
TimerEvents == {e \in InboundEvents : e.ID \in {<<48, 97>>, <<48, 53>>, <<50, 98>>}}

\* processEvent with the timer that enqueueOrdered starts
TimedProcess(r) == ProcessWith(r, startTimers(timersCreated(r)))

\* a timer that time.AfterFunc started for stream key k fires: flushOrdered(k)
TimerFire(k) ==
    FlushOrderedWith(k, afterFuncs[k] > 0, afterFuncs' = [afterFuncs EXCEPT ![k] = @ - 1])

InitTimer == Init

NextTimer ==
    \/ \E r \in Relays, ev \in TimerEvents : Receive(r, ev)
    \/ \E r \in Relays : Dedup(r)
    \/ \E r \in Relays : TimedProcess(r)
    \/ \E k \in StreamKeys : TimerFire(k)
    \/ \E n \in {"a", GroupAB} : ActivateView(n)

SpecTimer == InitTimer /\ [][NextTimer]_vars

\* C31: an inbound event whose sender is in the blocked-users list is rejected
\* at the first stage, before the dedup stage: it is never enqueued for
\* display and its id is not recorded in the seen-cache
C31_BlockedRejectedBeforeDedup ==
    \A ev \in InboundEvents :
        ev.PubKey \in blockedUsers =>
            /\ ~SeqContains(seenCache, ev.ID)
            /\ ev.ID \notin evicted
            /\ \A r \in Relays : lev[r] = NoEvent \/ lev[r].ID # ev.ID
            /\ enqCount[ev.ID] = 0
            /\ \A k \in StreamKeys :
                 \A i \in 1..Len(orderBuf[k]) : orderBuf[k][i].id # ev.ID
            /\ \A i \in 1..Len(uiEvents) : uiEvents[i].ID # ev.ID

\* the one event delivered so far came from a blocked sender: processEvent
\* has returned and nothing was recorded
C31_BlockedDelivered ==
    /\ blockedUsers # {}
    /\ delivered = 1
    /\ \A r \in Relays : lpc[r] = "recv"
    /\ seenCache = <<>>
    /\ \A id \in EventIds : arrivals[id] = 0

\* C30: at any time at most one flush timer is pending per stream key: a
\* timer is started only by an enqueue that finds no timer for the key, and
\* it is removed when the key is flushed, also when a view activation forces
\* the flush before the timer has fired
C30_OneTimerPerKey ==
    \A k \in StreamKeys :
        /\ afterFuncs[k] <= 1
        /\ k \notin orderTimers => afterFuncs[k] = 0

----------------------------------------------------------------------------
\* The mute list and the filter list at ingestion.

\* "sp", found in the content "spam" also after its truncation
TxtSp == <<115, 112>>

Pat(pattern, enabled) == [Pattern |-> pattern, Enabled |-> enabled]

\* the lists the mute and filter handlers can leave behind: a pattern added,
\* a pattern toggled off
MuteLists == { <<>>, <<Pat(TxtSp, TRUE)>>, <<Pat(TxtSp, FALSE)>> }
FilterLists ==
    { <<>>, <<Pat(TxtHi, TRUE)>>, <<Pat(TxtHi, FALSE)>>,
      <<Pat(TxtHi, FALSE), Pat(TxtSp, TRUE)>> }

\* the events of the runs: "hi" in chat a, "hi" and "spam" in chat b
FilterEvents == {e \in InboundEvents : e.ID \in {<<48, 97>>, <<50, 98>>, <<51, 99>>}}

InitFilter ==
    /\ views = IngestViews
    /\ activeViewName = "a"
    /\ blockedUsers = {}
    /\ mutes \in MuteLists
    /\ filters \in FilterLists
    /\ mainKey = 1
    /\ chatKeys = [c \in ChatNames |-> 0]
    /\ lastEmitted = <<>>
    /\ InitIngest
    /\ IdlePerm
    /\ IdlePoW
    /\ IdleMine
    /\ IdleRelay
    /\ IdleExt

NextFilter ==
    \/ \E r \in Relays, ev \in FilterEvents : Receive(r, ev)
    \/ \E r \in Relays : Dedup(r)
    \/ \E r \in Relays : Process(r)
    \/ \E k \in StreamKeys : FlushOrdered(k)

SpecFilter == InitFilter /\ [][NextFilter]_vars

\* the content of ev as processEvent matches it
matchedContent(ev) == sanitizeString(truncateString(ev.Content, MaxMsgLen))

\* the content holds a pattern of the list that is switched on
holdsEnabled(content, list) ==
    \E i \in 1..Len(list) : list[i].Enabled /\ StrContains(content, list[i].Pattern)

\* the mute list and the filter list let the content through
listsAdmit(content) ==
    /\ ~holdsEnabled(content, mutes)
    /\ (\E i \in 1..Len(filters) : filters[i].Enabled) => holdsEnabled(content, filters)

\* the event has a chat and, where the active view requires it, a valid proof
\* of work
passedEarlier(ev) ==
    /\ eventChatOf(ev) # ""
    /\ ~FailsRequiredPoW(ev)

\* C32: an event that passed the earlier stages is enqueued for display only
\* if its sanitised content matches no enabled mute pattern and, when an
\* enabled filter pattern exists, matches an enabled filter pattern; the
\* patterns that are toggled off have no effect: such an event is enqueued
\* whenever the enabled patterns admit it
C32_EnabledPatternsDecide ==
    [][\A r \in Relays :
          lpc[r] = "process" /\ lpc'[r] = "recv" =>
              LET ev       == lev[r]
                  enqueued == enqCount'[ev.ID] = enqCount[ev.ID] + 1
              IN  /\ enqueued => listsAdmit(matchedContent(ev))
                  /\ passedEarlier(ev) /\ listsAdmit(matchedContent(ev)) => enqueued]_vars

\* "spam" was enqueued under a mute of it that is toggled off and an enabled
\* filter for it, and "hi" was rejected although a filter for it exists,
\* toggled off
C32_DisabledIgnored ==
    /\ mutes = <<Pat(TxtSp, FALSE)>>
    /\ filters = <<Pat(TxtHi, FALSE), Pat(TxtSp, TRUE)>>
    /\ enqCount[<<51, 99>>] = 1
    /\ arrivals[<<50, 98>>] = 1
    /\ enqCount[<<50, 98>>] = 0
    /\ \A r \in Relays : lpc[r] = "recv"

----------------------------------------------------------------------------
\* Sending: publishMessage, createEvent, minePoWAndPublish, publish.

\* number of loop rounds between two cancellation checks (nonceCounter&0x3FF)
CheckInterval == 2

\* strconv.Itoa / strconv.FormatUint on the numbers of the model
Itoa(n) == IF n < 10 THEN <<48 + n>> ELSE <<48 + (n \div 10), 48 + (n % 10)>>

\* ev.GetID(): a hash of the serialized event, which covers the public key
\* and the nonce tag; one byte, written as two hex characters
IdOf(pk, nonce) ==
    LET h == (pk * 29 + nonce * 23 + 133) % 256
    IN  <<HexChar(h \div 16), HexChar(h % 16)>>

\* ev.Sign(sk): sets the public key of sk, recomputes the id, signs
Sign(ev, key, nonce) == [ev EXCEPT !.PubKey = key, !.ID = IdOf(key, nonce)]

\* the key signEventForChat signs with
signingKeyForChat(chatName) ==
    IF ~getActiveView.IsGroup /\ chatName \in ChatNames /\ chatKeys[chatName] # 0
    THEN chatKeys[chatName] ELSE mainKey

\* the key minePoWAndPublish reads for targetChat
sessionOrMainKey(targetChat) ==
    IF targetChat \in ChatNames /\ chatKeys[targetChat] # 0
    THEN chatKeys[targetChat] ELSE mainKey

createEvent(tags, difficulty) ==
    LET active   == getActiveView
        nickTags == IF active # NoView /\ ~active.IsGroup
                    THEN IF active.Name \in ChatNames /\ chatKeys[active.Name] # 0
                         THEN << <<"n", "nick">> >> ELSE <<>>
                    ELSE IF active # NoView THEN << <<"n", "nick">> >> ELSE <<>>
        powTags  == IF difficulty > 0
                    THEN << <<"nonce", Itoa(0), Itoa(difficulty)>> >> ELSE <<>>
    IN  InEvent(<<>>, mainKey, 1, tags \o nickTags \o powTags, TxtHi)

\* a message: plain, or a reply that begins with the tag of a known user
Messages == {""} \cup PubKeys \cup {"zz"}

\* the cancellation check of the mining loop sees the cancelled context
cancelObserved_never(counter, done) == FALSE
cancelObserved(counter, done) == counter % CheckInterval = 0 /\ done

CancelStatus == DE("STATUS", "PoW calculation cancelled.")

\* the published events that were mined
minedPublished == {e \in published : e.difficulty > 0}

mineFrame ==
    /\ UNCHANGED <<cfgVars, keyVars, permVars, powVars, relayVars, extVars>>
    /\ UNCHANGED <<seenCache, lpc, lev, orderBuf, orderTimers, userContext, lastBatch,
                   delivered, enqCount, arrivals, evicted>>

\* publish: the event goes to the relays, a status event reports it
publishTo(ev, difficulty, targetChat, events) ==
    /\ published' = published \cup
                       {[ev |-> ev, difficulty |-> difficulty, targetChat |-> targetChat]}
    /\ uiEvents' = uiEvents \o events \o <<DE("STATUS", "sent")>>

\* SEND_MESSAGE: handleAction starts the publishMessage goroutine
SendMessage(message) ==
    /\ spc = "run"
    /\ mpc = "idle"
    /\ mpc' = "spawned"
    /\ sendMsg' = [message |-> message,
                   inGroup |-> getActiveView # NoView /\ getActiveView.IsGroup]
    /\ UNCHANGED <<cancelled, mEv, nonceCounter, published, cancelWhileMining,
                   switchWhileMining, sinceCancel>>
    /\ UNCHANGED <<cfgVars, keyVars, ingestVars, permVars, powVars, relayVars>>
    /\ UNCHANGED <<listenVars, crawlVars, shutVars, lockVars, backoffVars, timerVars, pubVars, callVars>>

\* publishMessage(message), with the connected relays of the target chat
PublishMessage(message, relaysForPublishing) ==
    /\ mpc = "spawned"
    /\ LET isReply     == message # ""
           known       == message \in PubKeys /\ userContext[message] # ""
           activeView  == getActiveView
           targetChat  == IF isReply THEN userContext[message] ELSE activeView.Name
           tagKey      == IF geohashValid(targetChat) THEN "g" ELSE "d"
           tags        == << <<tagKey, targetChat>> >>
                              \o (IF isReply THEN << <<"p", message>> >> ELSE <<>>)
           requiredPoW == effectivePoWForChat(targetChat)
           ev          == createEvent(tags, requiredPoW)
           fail(txt)   == /\ uiEvents' = Append(uiEvents, DE("ERROR", txt))
                          /\ mpc' = "done"
                          /\ UNCHANGED <<mEv, published>>
       IN  IF isReply /\ ~known THEN fail("no known user")
           ELSE IF ~isReply /\ activeView = NoView THEN fail("no active chat")
           ELSE IF ~isReply /\ activeView.IsGroup THEN fail("group broadcast disabled")
           ELSE IF ~isReply /\ activeView.Name = "" THEN fail("active chat invalid")
           ELSE IF activeView = NoView THEN fail("cannot determine PoW")
           ELSE IF relaysForPublishing = {} THEN fail("not connected")
           ELSE IF requiredPoW > 0
           THEN /\ mEv' = [ev |-> ev, difficulty |-> requiredPoW, targetChat |-> targetChat]
                /\ mpc' = "start"
                /\ UNCHANGED <<uiEvents, published>>
           ELSE /\ publishTo(Sign(ev, signingKeyForChat(targetChat), 0), 0, targetChat, <<>>)
                /\ mpc' = "done"
                /\ UNCHANGED mEv
    /\ UNCHANGED <<cancelled, nonceCounter, cancelWhileMining, switchWhileMining, sinceCancel>>
    /\ mineFrame

\* minePoWAndPublish up to the mining loop
MineStart ==
    /\ mpc = "start"
    /\ LET tags == mEv.ev.Tags
           hits == {i \in 1..Len(tags) : Len(tags[i]) > 1 /\ tags[i][1] = "nonce"}
       IN  /\ mEv' = [mEv EXCEPT !.ev.PubKey = sessionOrMainKey(mEv.targetChat)]
           /\ IF hits = {}
              THEN /\ uiEvents' = uiEvents \o <<DE("STATUS", "Calculating Proof-of-Work"),
                                                DE("ERROR", "nonce tag not found")>>
                   /\ mpc' = "done"
              ELSE /\ uiEvents' = Append(uiEvents, DE("STATUS", "Calculating Proof-of-Work"))
                   /\ mpc' = "mine"
    /\ nonceCounter' = 0
    /\ UNCHANGED <<cancelled, published, cancelWhileMining, switchWhileMining, sinceCancel>>
    /\ mineFrame

\* the nonce tag of the event being mined holds the decimal form of n
withNonce(ev, n) ==
    LET tags == ev.Tags
        hits == {i \in 1..Len(tags) : Len(tags[i]) > 1 /\ tags[i][1] = "nonce"}
        idx  == CHOOSE i \in hits : \A j \in hits : i <= j
    IN  [ev EXCEPT !.Tags[idx][2] = Itoa(n), !.ID = IdOf(ev.PubKey, n)]

\* one round of the mining loop
MineIter ==
    /\ mpc = "mine"
    /\ LET ev == withNonce(mEv.ev, nonceCounter)
       IN  /\ mEv' = [mEv EXCEPT !.ev = ev]
           /\ IF countLeadingZeroBits(ev.ID) >= mEv.difficulty
              THEN /\ mpc' = "sign"
                   /\ UNCHANGED <<nonceCounter, uiEvents>>
              ELSE /\ nonceCounter' = nonceCounter + 1
                   /\ IF cancelObserved(nonceCounter + 1, cancelled)
                      THEN /\ uiEvents' = Append(uiEvents, CancelStatus)
                           /\ mpc' = "cancelled"
                      ELSE /\ mpc' = "mine"
                           /\ UNCHANGED uiEvents
    /\ sinceCancel' = IF cancelled THEN sinceCancel + 1 ELSE sinceCancel
    /\ UNCHANGED <<cancelled, published, cancelWhileMining, switchWhileMining>>
    /\ mineFrame

\* minePoWAndPublish after the loop: Sign, publish
SignAndPublish ==
    /\ mpc = "sign"
    /\ publishTo(Sign(mEv.ev, sessionOrMainKey(mEv.targetChat), nonceCounter),
                 mEv.difficulty, mEv.targetChat, <<>>)
    /\ mpc' = "done"
    /\ UNCHANGED <<cancelled, mEv, nonceCounter, cancelWhileMining, switchWhileMining,
                   sinceCancel>>
    /\ mineFrame

\* QUIT: shutdown up to wg.Wait: the root context is cancelled, every pending
\* flush timer is stopped and its key handed to a flushOrdered goroutine (a
\* timer that has fired already runs flushOrdered itself), the timer table
\* is emptied
beginShutdown(after) ==
    /\ spc = "run"
    /\ ~cancelled
    /\ cancelled' = TRUE
    /\ cancelWhileMining' = (cancelWhileMining \/ mining)
    /\ flushers' = flushers \cup orderTimers
    /\ orderTimers' = {}
    /\ spc' = after
    /\ UNCHANGED <<cfgVars, keyVars, permVars, powVars, relayVars>>
    /\ UNCHANGED <<listenVars, crawlVars, sendVars, lockVars, backoffVars, timerVars, pubVars, callVars>>
    /\ UNCHANGED ingestRest
    /\ UNCHANGED <<orderBuf, uiEvents, lastBatch>>
    /\ UNCHANGED <<mpc, mEv, nonceCounter, published, switchWhileMining, sinceCancel>>

\* the QUIT action: Run comes back to its loop when shutdown returns
Shutdown == beginShutdown("wait")

\* the action channel is closed: Run returns when shutdown returns
ActionsClosed == beginShutdown("wait_closed")

\* chat a requires difficulty 3; b is a geohash chat without proof of work
MineViews ==
    << View("a", FALSE, <<>>, 3), View("b", FALSE, <<>>, 0),
       View(GroupAB, TRUE, <<"a", "b">>, 0) >>

InitMine ==
    /\ views = MineViews
    /\ activeViewName \in {"a", "b", GroupAB}
    /\ blockedUsers = {}
    /\ mutes = <<>>
    /\ filters = <<>>
    /\ mainKey = 1
    /\ chatKeys = [c \in ChatNames |-> IF c = activeViewName THEN 2 ELSE 0]
    /\ lastEmitted = <<>>
    /\ seenCache = <<>>
    /\ lpc = [r \in Relays |-> "recv"]
    /\ lev = [r \in Relays |-> NoEvent]
    /\ orderBuf = [k \in StreamKeys |-> <<>>]
    /\ orderTimers = {}
    /\ userContext = [p \in PubKeys |-> IF p = "u1" THEN "a" ELSE ""]
    /\ uiEvents = <<>>
    /\ lastBatch = <<>>
    /\ delivered = 0
    /\ enqCount = [id \in EventIds |-> 0]
    /\ arrivals = [id \in EventIds |-> 0]
    /\ evicted = {}
    /\ IdlePerm
    /\ IdlePoW
    /\ IdleMine
    /\ IdleRelay
    /\ IdleExt

NextMine ==
    \/ \E m \in Messages : SendMessage(m)
    \/ \E rs \in SUBSET Relays : PublishMessage(sendMsg.message, rs)
    \/ MineStart
    \/ MineIter
    \/ SignAndPublish
    \/ Shutdown
    \/ \E n \in {"a", "b", GroupAB, "zz"} : ActivateView(n)
    \/ \E n \in {"a", "b"} : LeaveChat(n)
    \/ JoinChats(<<"a">>)

SpecMine == InitMine /\ [][NextMine]_vars

\* C5: every event that minePoWAndPublish hands to publish for a difficulty
\* d > 0 passes isPoWValid(event, d) as published, also when the session key
\* of the chat is created or removed while mining is in progress.
C5_PublishedPassesPoW ==
    \A e \in minedPublished : isPoWValid(e.ev, e.difficulty)

\* C6 as stated: once the root context is cancelled while the loop is
\* running, the event is never published.
C6_CancelledNeverPublished ==
    cancelWhileMining => minedPublished = {}

\* C6: once the root context is cancelled while the loop is running, the loop
\* ends within one check interval; when it ends at the cancellation check the
\* event is not published and the cancellation status has been emitted, and
\* an event is published only when the loop ended with a nonce found before
\* that check.
C6_LoopEndsWithinCheckInterval ==
    cancelWhileMining =>
        /\ sinceCancel <= CheckInterval
        /\ mpc = "cancelled" =>
               (minedPublished = {} /\ SeqContains(uiEvents, CancelStatus))
        /\ minedPublished # {} =>
               (mpc = "done" /\ ~SeqContains(uiEvents, CancelStatus))

C6_CancelObservedWhileMining ==
    cancelWhileMining /\ mpc = "cancelled" /\ sinceCancel > 0

\* C7: when the active chat is switched while a message for the previously
\* active chat is being mined, the mined event is not published.
C7_SwitchAbortsMining ==
    switchWhileMining => minedPublished = {}

\* C20: a SEND_MESSAGE handled while the active view is a group, with a text
\* that does not start with '@', never leads to a published event, and once
\* publishMessage has returned the ERROR event of the group rule is emitted.
C20_GroupBroadcastNeverPublished ==
    (mpc # "idle" /\ sendMsg.inGroup /\ sendMsg.message = "") =>
        /\ published = {}
        /\ mpc \in {"spawned", "done"}
        /\ mpc = "done" => SeqContains(uiEvents, DE("ERROR", "group broadcast disabled"))


----------------------------------------------------------------------------
\* Several messages, one after the other, to the chats of known users.

\* number of messages sent
MaxSends == 2

\* the publishMessage goroutines that have ended with publish or an error
sendsDone ==
    Cardinality({i \in 1..Len(uiEvents) :
                    uiEvents[i] = DE("STATUS", "sent") \/ uiEvents[i].Type = "ERROR"})

\* publishMessage (or the minePoWAndPublish it started) has returned; the
\* next SEND_MESSAGE is handled
PublishReturned ==
    /\ mpc = "done"
    /\ sendsDone < MaxSends
    /\ mpc' = "idle"
    /\ mEv' = NoMined
    /\ nonceCounter' = 0
    /\ sendMsg' = NoSend
    /\ UNCHANGED <<cancelled, published, cancelWhileMining, switchWhileMining, sinceCancel>>
    /\ UNCHANGED <<cfgVars, keyVars, ingestVars, permVars, powVars, relayVars>>
    /\ UNCHANGED <<listenVars, crawlVars, shutVars, lockVars, backoffVars, timerVars, pubVars, callVars>>

\* the client has seen u1 in chat a and u3 in chat b
InitSign ==
    /\ views = MineViews
    /\ activeViewName \in {"a", "b", GroupAB}
    /\ blockedUsers = {}
    /\ mutes = <<>>
    /\ filters = <<>>
    /\ mainKey = 1
    /\ chatKeys = [c \in ChatNames |-> IF c = activeViewName THEN 2 ELSE 0]
    /\ lastEmitted = <<>>
    /\ seenCache = <<>>
    /\ lpc = [r \in Relays |-> "recv"]
    /\ lev = [r \in Relays |-> NoEvent]
    /\ orderBuf = [k \in StreamKeys |-> <<>>]
    /\ orderTimers = {}
    /\ userContext = [p \in PubKeys |-> CASE p = "u1" -> "a" [] p = "u3" -> "b"
                                          [] OTHER -> ""]
    /\ uiEvents = <<>>
    /\ lastBatch = <<>>
    /\ delivered = 0
    /\ enqCount = [id \in EventIds |-> 0]
    /\ arrivals = [id \in EventIds |-> 0]
    /\ evicted = {}
    /\ IdlePerm
    /\ IdlePoW
    /\ IdleMine
    /\ IdleRelay
    /\ IdleExt

NextSign ==
    \/ \E m \in {"", "u1", "u3"} : SendMessage(m)
    \/ \E rs \in {{}, {"r1"}} : PublishMessage(sendMsg.message, rs)
    \/ MineStart
    \/ MineIter
    \/ SignAndPublish
    \/ PublishReturned
    \/ \E n \in {"a", "b", GroupAB} : ActivateView(n)

SpecSign == InitSign /\ [][NextSign]_vars

\* C25: no two events published to distinct chats are signed with the same
\* key, whatever the active view and whether or not proof of work is mined.
C25_DistinctChatsDistinctKeys ==
    \A e, f \in published :
        e.targetChat # f.targetChat => e.ev.PubKey # f.ev.PubKey

----------------------------------------------------------------------------
\* Relay connections: updateAllSubscriptions, updateRelaySubscriptions,
\* manageRelayConnection, replaceSubscription.

\* c.config.AnchorRelays, closestRelays and defaultNamedChatRelays of the model
AnchorRelays == {"r1"}
closestRelays(chat) == {"r2"}
defaultNamedChatRelays == {"r1"}

getRelayPoolForChat(chat) ==
    LET relaySet == AnchorRelays \cup discovered \cup
                        (IF geohashValid(chat) THEN closestRelays(chat) ELSE {})
    IN  IF relaySet = {} THEN defaultNamedChatRelays ELSE relaySet

\* the maps updateAllSubscriptions may build: the chats of a relay come in the
\* order in which the map of active chats is iterated
desiredRelayToChats(vs, active) ==
    LET chats      == activeChats(vs, active)
        urls       == UNION {getRelayPoolForChat(c) : c \in chats}
        chatsOf(u) == {c \in chats : u \in getRelayPoolForChat(c)}
    IN  {d \in [urls -> UNION {KeyOrders(chatsOf(u)) : u \in urls}] :
            \A u \in urls : d[u] \in KeyOrders(chatsOf(u))}

\* a comparison of the two lists position by position
sameStringSet_ordered(a, b) == a = b

sameStringSet(a, b) ==
    /\ Len(a) = Len(b)
    /\ \A i \in 1..Len(b) : \E j \in 1..Len(a) : a[j] = b[i]

RECURSIVE dedupeChats(_, _)
dedupeChats(chats, seen) ==
    IF chats = <<>> THEN <<>>
    ELSE IF Head(chats) \in seen THEN dedupeChats(Tail(chats), seen)
    ELSE <<Head(chats)>> \o dedupeChats(Tail(chats), seen \cup {Head(chats)})

\* mrCurrentChatsLocked: the chats of the filters of subscription k of
\* managed relay m
mrCurrentChatsLocked(m, k) == IF k = 0 THEN <<>> ELSE dedupeChats(subs[m][k].chats, {})

\* an old subscription stays the current one
installSubscription_keepOld(oldSub, newSub) == IF oldSub = 0 THEN newSub ELSE oldSub

\* mr.subscription = newSub
installSubscription(oldSub, newSub) == newSub

\* relayFailed(url)
relayFailed(url) == url \in failCache

\* the payload of sendRelaysUpdate: URL and connected flag of every relay of
\* the table
relaysUpdate(rel, conn) ==
    [Type |-> "RELAYS_UPDATE",
     Payload |-> {<<u, conn[rel[u]]>> : u \in {v \in Relays : rel[v] # 0}}]

\* sendRelaysUpdate for a table whose relays have no listener yet: connected
\* is true since manageRelayConnection created the managed relay
sendRelaysUpdate(rel) == relaysUpdate(rel, [m \in ConnIds |-> TRUE])

\* the current subscription of managed relay m exists and was not unsubscribed
hasLive(m) == mrSubscription[m] # 0 /\ subs[m][mrSubscription[m]].live

\* the URL has a managed relay with a live subscription for exactly these chats
subscribedTo(url, chats) ==
    /\ relays[url] # 0
    /\ ~mrClosed[relays[url]]
    /\ hasLive(relays[url])
    /\ LET cur == mrCurrentChatsLocked(relays[url], mrSubscription[relays[url]])
       IN  {cur[i] : i \in 1..Len(cur)} = {chats[i] : i \in 1..Len(chats)}

\* two desired maps with the same relays and, per relay, the same chats
sameDesired(d, e) ==
    /\ DOMAIN d = DOMAIN e
    /\ \A u \in DOMAIN d : {d[u][i] : i \in 1..Len(d[u])} = {e[u][i] : i \in 1..Len(e[u])}

\* what the reconciliation leaves alone, the listeners apart
relayFrameRest ==
    /\ UNCHANGED <<cfgVars, keyVars, permVars, powVars, mineVars>>
    /\ UNCHANGED <<crawlVars, shutVars, sendVars, lockVars, backoffVars, timerVars, pubVars,
                   callVars>>
    /\ UNCHANGED <<seenCache, lpc, lev, orderBuf, orderTimers, userContext, lastBatch,
                   delivered, enqCount, arrivals, evicted>>

relayFrame ==
    /\ UNCHANGED listenVars
    /\ relayFrameRest

\* the goroutine is a replaceSubscription task of updateRelaySubscriptions
isTask(i) == i <= Cardinality(Relays)

\* oldSub.Unsub() on subscription k of managed relay m
unsubscribed(all, m, k) == [all EXCEPT ![m][k].live = FALSE]

\* updateRelaySubscriptions(desired) up to the removal loop: the snapshot of
\* c.relays, one replaceSubscription task per relay that exists, one
\* manageRelayConnection per relay that does not
startCall(desired) ==
    LET toConnect == {u \in DOMAIN desired : ~relayFailed(u) /\ relays[u] = 0}
        toReplace == {u \in DOMAIN desired : ~relayFailed(u) /\ relays[u] # 0}
        rank(u)   == Cardinality({v \in toConnect : RelayIndex(v) < RelayIndex(u)}) + 1
        claimed   == /\ calls >= 1
                     /\ sameDesired(desired, desiredRelays)
                     /\ \A u \in DOMAIN desired : subscribedTo(u, desired[u])
        quiet     == /\ \A u \in Relays \ DOMAIN desired : relays[u] = 0
                     /\ \A j \in ConnIds : reps[ConnRep(j)].pc = "none"
    IN  /\ calls < MaxCalls
        /\ nconns + Cardinality(toConnect) <= MaxConns
        /\ reps' = [i \in RepIds |->
                      IF \E u \in toReplace : TaskId(u) = i
                      THEN LET u == CHOOSE v \in toReplace : TaskId(v) = i
                           IN  [NoRep EXCEPT !.pc = "read", !.url = u, !.mr = relays[u],
                                             !.chats = desired[u]]
                      ELSE IF \E u \in toConnect : ConnRep(nconns + rank(u)) = i
                      THEN LET u == CHOOSE v \in toConnect : ConnRep(nconns + rank(v)) = i
                           IN  [NoRep EXCEPT !.pc = "connect", !.url = u,
                                             !.mr = nconns + rank(u), !.chats = desired[u]]
                      ELSE reps[i]]
        /\ nconns' = nconns + Cardinality(toConnect)
        /\ rpc' = "remove"
        /\ desiredRelays' = desired
        /\ calls' = calls + 1
        /\ rhist' = [idemClaim |-> claimed, idemQuiet |-> claimed /\ quiet,
                     reordered |-> desired # desiredRelays,
                     subscribes |-> 0, unsubs |-> 0, netFailed |-> rhist.netFailed,
                     conns |-> Cardinality(toConnect)]
        /\ UNCHANGED <<relays, mrSubscription, mrClosed, subs, failCache>>

\* updateAllSubscriptions at the end of a handler
UpdateRelaySubscriptions ==
    \E d \in desiredRelayToChats(views', activeViewName') : startCall(d)

\* the removal loop of updateRelaySubscriptions
RemoveUnneeded ==
    /\ rpc = "remove"
    /\ LET gone   == {u \in Relays : relays[u] # 0 /\ u \notin DOMAIN desiredRelays}
           mrs    == {relays[u] : u \in gone}
           unsubd == {m \in mrs : mrSubscription[m] # 0}
       IN  /\ subs' = [m \in ConnIds |->
                          IF m \in unsubd
                          THEN [subs[m] EXCEPT ![mrSubscription[m]].live = FALSE]
                          ELSE subs[m]]
           /\ mrSubscription' = [m \in ConnIds |-> IF m \in mrs THEN 0 ELSE mrSubscription[m]]
           /\ mrClosed' = [m \in ConnIds |-> mrClosed[m] \/ m \in mrs]
           /\ relays' = [u \in Relays |-> IF u \in gone THEN 0 ELSE relays[u]]
           /\ rhist' = [rhist EXCEPT !.unsubs = @ + Cardinality(unsubd)]
    /\ rpc' = "wait"
    /\ UNCHANGED <<failCache, desiredRelays, reps, nconns, calls, uiEvents>>
    /\ relayFrame

\* wg.Wait of updateRelaySubscriptions
FinishCall ==
    /\ rpc = "wait"
    /\ \A i \in RepIds : isTask(i) => reps[i].pc \in {"none", "failed"}
    /\ rpc' = "idle"
    /\ reps' = [i \in RepIds |-> IF isTask(i) THEN NoRep ELSE reps[i]]
    /\ uiEvents' = Append(uiEvents, sendRelaysUpdate(relays))
    /\ UNCHANGED <<relays, mrSubscription, mrClosed, subs, failCache, desiredRelays,
                   nconns, calls, rhist>>
    /\ relayFrame

\* manageRelayConnection up to its replaceSubscription: the fail cache is
\* consulted, RelayConnect returns, the managed relay is entered into
\* c.relays unless the URL has one
Connect(i, ok) ==
    /\ reps[i].pc = "connect"
    /\ IF relayFailed(reps[i].url)
       THEN /\ reps' = [reps EXCEPT ![i] = NoRep]
            /\ uiEvents' = Append(uiEvents, DE("STATUS", "Skipping connect"))
            /\ UNCHANGED <<relays, mrClosed, failCache>>
       ELSE IF ~ok
       THEN /\ uiEvents' = Append(uiEvents, DE("ERROR", "Failed to connect"))
            /\ failCache' = failCache \cup {reps[i].url}
            /\ reps' = [reps EXCEPT ![i] = NoRep]
            /\ UNCHANGED <<relays, mrClosed>>
       ELSE IF relays[reps[i].url] # 0
       THEN /\ mrClosed' = [mrClosed EXCEPT ![reps[i].mr] = TRUE]
            /\ reps' = [reps EXCEPT ![i] = NoRep]
            /\ UNCHANGED <<relays, failCache, uiEvents>>
       ELSE /\ relays' = [relays EXCEPT ![reps[i].url] = reps[i].mr]
            /\ reps' = [reps EXCEPT ![i].pc = "read"]
            /\ uiEvents' = Append(uiEvents, sendRelaysUpdate(relays'))
            /\ UNCHANGED <<mrClosed, failCache>>
    /\ rhist' = [rhist EXCEPT !.netFailed = @ \/ (~relayFailed(reps[i].url) /\ ~ok)]
    /\ UNCHANGED <<mrSubscription, subs, rpc, desiredRelays, nconns, calls>>
    /\ relayFrame

\* replaceSubscription: the chats of the current subscription are read and
\* compared with the chats wanted
ReplaceRead(i) ==
    /\ reps[i].pc = "read"
    /\ LET m == reps[i].mr
       IN  IF sameStringSet(mrCurrentChatsLocked(m, mrSubscription[m]), reps[i].chats)
           THEN reps' = [reps EXCEPT ![i] = NoRep]
           ELSE reps' = [reps EXCEPT ![i].pc = "subscribe", ![i].hadLive = hasLive(m)]
    /\ UNCHANGED <<relays, mrSubscription, mrClosed, subs, failCache, rpc, desiredRelays,
                   nconns, calls, rhist, uiEvents>>
    /\ relayFrame

\* replaceSubscription: mr.relay.Subscribe returns
ReplaceSubscribe(i, ok) ==
    /\ reps[i].pc = "subscribe"
    /\ rhist' = [rhist EXCEPT !.subscribes = IF isTask(i) THEN @ + 1 ELSE @,
                              !.netFailed = @ \/ ~ok]
    /\ LET m == reps[i].mr
       IN  IF ok
           THEN /\ ~mrClosed[m]
                /\ Len(subs[m]) < MaxSubs
                /\ subs' = [subs EXCEPT ![m] = Append(@, [chats |-> reps[i].chats,
                                                           live |-> TRUE])]
                /\ reps' = [reps EXCEPT ![i].pc = "install", ![i].newSub = Len(subs[m]) + 1]
                /\ UNCHANGED <<relays, mrClosed, failCache, uiEvents>>
           ELSE IF isTask(i)
           THEN /\ uiEvents' = Append(uiEvents, DE("ERROR", "Resubscribe failed"))
                /\ failCache' = failCache \cup {reps[i].url}
                /\ reps' = [reps EXCEPT ![i].pc = "failed"]
                /\ UNCHANGED <<relays, mrClosed, subs>>
           ELSE /\ mrClosed' = [mrClosed EXCEPT ![m] = TRUE]
                /\ relays' = [relays EXCEPT ![reps[i].url] = 0]
                /\ reps' = [reps EXCEPT ![i] = NoRep]
                /\ uiEvents' = Append(uiEvents, sendRelaysUpdate(relays'))
                /\ UNCHANGED <<failCache, subs>>
    /\ UNCHANGED <<mrSubscription, rpc, desiredRelays, nconns, calls>>
    /\ relayFrame

\* replaceSubscription: the new subscription becomes the current one; without
\* an old subscription the call returns. A manageRelayConnection that gets
\* its subscription starts the listener (listen)
ReplaceInstallWith(i, listen) ==
    /\ reps[i].pc = "install"
    /\ LET m == reps[i].mr
       IN  /\ mrSubscription' =
                  [mrSubscription EXCEPT ![m] = installSubscription(@, reps[i].newSub)]
           /\ reps' = IF mrSubscription[m] = 0
                      THEN [reps EXCEPT ![i] = NoRep]
                      ELSE [reps EXCEPT ![i].pc = "unsub", ![i].oldSub = mrSubscription[m]]
           /\ uiEvents' = IF mrSubscription[m] = 0
                          THEN Append(uiEvents, sendRelaysUpdate(relays))
                          ELSE uiEvents
    /\ UNCHANGED <<relays, mrClosed, subs, failCache, rpc, desiredRelays, nconns, calls,
                   rhist>>
    /\ listen
    /\ relayFrameRest

\* the listeners are left out
ReplaceInstall(i) == ReplaceInstallWith(i, UNCHANGED listenVars)

\* replaceSubscription: the subscription that was replaced is unsubscribed
ReplaceUnsub(i) ==
    /\ reps[i].pc = "unsub"
    /\ subs' = unsubscribed(subs, reps[i].mr, reps[i].oldSub)
    /\ rhist' = IF isTask(i) THEN [rhist EXCEPT !.unsubs = @ + 1] ELSE rhist
    /\ reps' = [reps EXCEPT ![i] = NoRep]
    /\ uiEvents' = Append(uiEvents, sendRelaysUpdate(relays))
    /\ UNCHANGED <<relays, mrSubscription, mrClosed, failCache, rpc, desiredRelays,
                   nconns, calls>>
    /\ relayFrame

InitRelay ==
    /\ views = MineViews
    /\ activeViewName = GroupAB
    /\ blockedUsers = {}
    /\ mutes = <<>>
    /\ filters = <<>>
    /\ mainKey = 1
    /\ chatKeys = [c \in ChatNames |-> 0]
    /\ lastEmitted = <<>>
    /\ InitIngest
    /\ IdlePerm
    /\ IdlePoW
    /\ IdleMine
    /\ IdleRelay
    /\ IdleExt

NextRelay ==
    \/ \E n \in {"a", "zz"} : ActivateViewWith(n, UpdateRelaySubscriptions)
    \/ RemoveUnneeded
    \/ FinishCall
    \/ \E i \in RepIds, ok \in BOOLEAN : Connect(i, ok)
    \/ \E i \in RepIds : ReplaceRead(i)
    \/ \E i \in RepIds, ok \in BOOLEAN : ReplaceSubscribe(i, ok)
    \/ \E i \in RepIds : ReplaceInstall(i)
    \/ \E i \in RepIds : ReplaceUnsub(i)

SpecRelay == InitRelay /\ [][NextRelay]_vars

C10_NeverWithoutLiveSubscription ==
    /\ \A m \in ConnIds : mrSubscription[m] # 0 => hasLive(m)
    /\ \A i \in RepIds :
           (isTask(i) /\ reps[i].hadLive
               /\ reps[i].pc \in {"subscribe", "install", "unsub", "failed"})
           => hasLive(reps[i].mr)

C10_OldUnsubscribedAfterInstall ==
    \E i \in RepIds :
        /\ isTask(i) /\ reps[i].hadLive /\ reps[i].pc = "unsub"
        /\ mrSubscription[reps[i].mr] = reps[i].newSub

\* the manageRelayConnection goroutines the current call started that have
\* not returned
connectionsOfCall ==
    {j \in ConnIds : /\ j > nconns - rhist.conns
                     /\ j <= nconns
                     /\ reps[ConnRep(j)].pc # "none"}

\* C24: updateRelaySubscriptions sends its final RELAYS_UPDATE only after
\* every task it started (re-subscriptions, connections, removals) has
\* completed.
C24_FinalUpdateAfterTasks ==
    [][(rpc = "wait" /\ rpc' = "idle") =>
           /\ connectionsOfCall = {}
           /\ \A i \in RepIds : isTask(i) => reps[i].pc \in {"none", "failed"}]_vars

\* the last updateRelaySubscriptions has returned, no manageRelayConnection
\* and no replaceSubscription is in progress, and no connect or subscribe failed
relaysAtRest ==
    /\ calls >= 1
    /\ rpc = "idle"
    /\ \A i \in RepIds : reps[i].pc = "none"
    /\ ~rhist.netFailed
    /\ failCache = {}

\* C23: once the most recent reconciliation and every connection and
\* re-subscription task have completed without a network failure, c.relays
\* holds exactly the relays of the most recent desired map, each with one
\* live subscription whose chats are the relay's desired chats, whatever the
\* interleaving of the calls and of the connections they started.
C23_ConvergesToLastDesired ==
    relaysAtRest =>
        /\ \A u \in Relays : relays[u] # 0 <=> u \in DOMAIN desiredRelays
        /\ \A u \in DOMAIN desiredRelays :
               /\ subscribedTo(u, desiredRelays[u])
               /\ Cardinality({k \in 1..Len(subs[relays[u]]) :
                                  subs[relays[u]][k].live}) = 1

----------------------------------------------------------------------------
\* Locks: c.relaysMu, mr.mu and the sends on c.eventsChan.

\* the tasks: manageRelayConnection of r1 and of r2, and one
\* updateRelaySubscriptions with an empty desired map
LockTasks == 1..3

lockFrame ==
    /\ UNCHANGED <<cfgVars, keyVars, ingestVars, permVars, powVars, mineVars, relayVars>>
    /\ UNCHANGED <<listenVars, crawlVars, shutVars, sendVars, backoffVars, timerVars, pubVars, callVars>>

\* sendRelaysUpdate is entered; after it the task goes on at ret
enterSendRelaysUpdate(t, ret) ==
    [ltask[t] EXCEPT !.pc = "su_lock", !.ret = ret]

\* manageRelayConnection: nostr.RelayConnect returns, without error
LockConnect(t) ==
    /\ ltask[t].pc = "connect"
    /\ ltask' = [ltask EXCEPT ![t].pc = "mc_lock"]
    /\ UNCHANGED <<relaysMu, mrMu, chanLen, lockTable>>
    /\ lockFrame

\* manageRelayConnection: c.relaysMu.Lock, the managed relay is entered into
\* c.relays unless the URL has one, Unlock
LockInsert(t) ==
    /\ ltask[t].pc = "mc_lock"
    /\ relaysMu = 0
    /\ IF ltask[t].url \in lockTable
       THEN /\ ltask' = [ltask EXCEPT ![t].pc = "done"]
            /\ UNCHANGED lockTable
       ELSE /\ lockTable' = lockTable \cup {ltask[t].url}
            /\ ltask' = [ltask EXCEPT ![t] = enterSendRelaysUpdate(t, "rs_read")]
    /\ UNCHANGED <<relaysMu, mrMu, chanLen>>
    /\ lockFrame

\* sendRelaysUpdate: c.relaysMu.Lock, with the deferred Unlock
SendUpdateLock(t) ==
    /\ ltask[t].pc = "su_lock"
    /\ relaysMu = 0
    /\ relaysMu' = t
    /\ ltask' = [ltask EXCEPT ![t].pc = "su_read", ![t].todo = lockTable]
    /\ UNCHANGED <<mrMu, chanLen, lockTable>>
    /\ lockFrame

\* sendRelaysUpdate: one round of the loop: mr.mu.Lock, connected and
\* latency are read, mr.mu.Unlock
SendUpdateRead(t, u) ==
    /\ ltask[t].pc = "su_read"
    /\ u \in ltask[t].todo
    /\ mrMu[u] = 0
    /\ ltask' = [ltask EXCEPT ![t].todo = @ \ {u}]
    /\ UNCHANGED <<relaysMu, mrMu, chanLen, lockTable>>
    /\ lockFrame

\* sendRelaysUpdate: the loop has ended, the task is at the send
SendUpdateBuilt(t) ==
    /\ ltask[t].pc = "su_read"
    /\ ltask[t].todo = {}
    /\ ltask' = [ltask EXCEPT ![t].pc = "su_send"]
    /\ UNCHANGED <<relaysMu, mrMu, chanLen, lockTable>>
    /\ lockFrame

\* sendRelaysUpdate: c.eventsChan <- RELAYS_UPDATE goes through when the
\* channel has room; the function returns and the deferred Unlock runs
SendUpdateSend(t) ==
    /\ ltask[t].pc = "su_send"
    /\ chanLen < eventsChanCap
    /\ chanLen' = chanLen + 1
    /\ relaysMu' = 0
    /\ ltask' = [ltask EXCEPT ![t].pc = ltask[t].ret, ![t].ret = "done"]
    /\ UNCHANGED <<mrMu, lockTable>>
    /\ lockFrame

\* replaceSubscription: mr.mu.Lock, the current chats are read, mr.mu.Unlock
LockReplaceRead(t) ==
    /\ ltask[t].pc = "rs_read"
    /\ mrMu[ltask[t].url] = 0
    /\ ltask' = [ltask EXCEPT ![t].pc = "rs_subscribe"]
    /\ UNCHANGED <<relaysMu, mrMu, chanLen, lockTable>>
    /\ lockFrame

\* replaceSubscription: mr.relay.Subscribe returns; mr.mu.Lock, the new
\* subscription is stored, mr.mu.Unlock; sendRelaysUpdate
LockReplaceInstall(t) ==
    /\ ltask[t].pc = "rs_subscribe"
    /\ mrMu[ltask[t].url] = 0
    /\ ltask' = [ltask EXCEPT ![t] = enterSendRelaysUpdate(t, "done")]
    /\ UNCHANGED <<relaysMu, mrMu, chanLen, lockTable>>
    /\ lockFrame

\* updateRelaySubscriptions: c.relaysMu.Lock before the removal loop
RemoveLock(t) ==
    /\ ltask[t].pc = "rm_lock"
    /\ relaysMu = 0
    /\ relaysMu' = t
    /\ ltask' = [ltask EXCEPT ![t].pc = "rm_next"]
    /\ UNCHANGED <<mrMu, chanLen, lockTable>>
    /\ lockFrame

\* the removal loop comes to a relay that is not desired: mr.mu.Lock
RemoveRelayLock(t, u) ==
    /\ ltask[t].pc = "rm_next"
    /\ u \in lockTable
    /\ mrMu[u] = 0
    /\ mrMu' = [mrMu EXCEPT ![u] = t]
    /\ ltask' = [ltask EXCEPT ![t].pc = "rm_unsub", ![t].url = u]
    /\ UNCHANGED <<relaysMu, chanLen, lockTable>>
    /\ lockFrame

\* the removal loop: mr.subscription.Unsub and mr.relay.Close return;
\* mr.mu.Unlock, delete(c.relays, url)
RemoveRelayClose(t) ==
    /\ ltask[t].pc = "rm_unsub"
    /\ mrMu' = [mrMu EXCEPT ![ltask[t].url] = 0]
    /\ lockTable' = lockTable \ {ltask[t].url}
    /\ ltask' = [ltask EXCEPT ![t].pc = "rm_next", ![t].url = ""]
    /\ UNCHANGED <<relaysMu, chanLen>>
    /\ lockFrame

\* the removal loop has ended: c.relaysMu.Unlock, wg.Wait, sendRelaysUpdate
RemoveUnlock(t) ==
    /\ ltask[t].pc = "rm_next"
    /\ lockTable = {}
    /\ relaysMu' = 0
    /\ ltask' = [ltask EXCEPT ![t] = enterSendRelaysUpdate(t, "done")]
    /\ UNCHANGED <<mrMu, chanLen, lockTable>>
    /\ lockFrame

\* the UI takes one display event off c.eventsChan
UiReceive ==
    /\ chanLen > 0
    /\ chanLen' = chanLen - 1
    /\ UNCHANGED <<relaysMu, mrMu, ltask, lockTable>>
    /\ lockFrame

LockTask(pc, url) == [pc |-> pc, url |-> url, ret |-> "done", todo |-> {}]

InitLock ==
    /\ InitConfigIngest
    /\ InitIngest
    /\ delivered = 0
    /\ enqCount = [id \in EventIds |-> 0]
    /\ arrivals = [id \in EventIds |-> 0]
    /\ evicted = {}
    /\ IdlePerm
    /\ IdlePoW
    /\ IdleMine
    /\ IdleRelay
    /\ IdleListen
    /\ IdleCrawl
    /\ IdleShut
    /\ sendMsg = NoSend
    /\ IdleBackoff
    /\ IdleTimer
    /\ IdlePub
    /\ IdleCall
    /\ relaysMu = 0
    /\ mrMu = [u \in Relays |-> 0]
    /\ chanLen \in 0..eventsChanCap
    /\ lockTable \in SUBSET Relays
    /\ ltask = [t \in LockTasks |->
                   CASE t = 1 -> LockTask("connect", "r1")
                     [] t = 2 -> LockTask("connect", "r2")
                     [] OTHER -> LockTask("rm_lock", "")]

NextLock ==
    \/ \E t \in LockTasks : LockConnect(t)
    \/ \E t \in LockTasks : LockInsert(t)
    \/ \E t \in LockTasks : SendUpdateLock(t)
    \/ \E t \in LockTasks, u \in Relays : SendUpdateRead(t, u)
    \/ \E t \in LockTasks : SendUpdateBuilt(t)
    \/ \E t \in LockTasks : SendUpdateSend(t)
    \/ \E t \in LockTasks : LockReplaceRead(t)
    \/ \E t \in LockTasks : LockReplaceInstall(t)
    \/ \E t \in LockTasks : RemoveLock(t)
    \/ \E t \in LockTasks, u \in Relays : RemoveRelayLock(t, u)
    \/ \E t \in LockTasks : RemoveRelayClose(t)
    \/ \E t \in LockTasks : RemoveUnlock(t)
    \/ UiReceive

SpecLock == InitLock /\ [][NextLock]_vars

\* C27: no task holds c.relaysMu while it performs a blocking network
\* operation on a relay or a blocking send on c.eventsChan, and mr.mu is held
\* only for reads and writes of the relay's fields; hence a stalled UI never
\* keeps a task that works on another relay waiting for c.relaysMu.
C27_NoBlockingUnderLock ==
    /\ \A t \in LockTasks : relaysMu = t => ltask[t].pc \notin {"su_send", "rm_unsub"}
    /\ \A u \in Relays : mrMu[u] # 0 => ltask[mrMu[u]].pc # "rm_unsub"
    /\ ~ \E t, w \in LockTasks :
             /\ relaysMu = t /\ ltask[t].pc = "su_send" /\ chanLen = eventsChanCap
             /\ ltask[w].pc = "mc_lock" /\ ltask[w].url # ltask[t].url

----------------------------------------------------------------------------
\* retryWithBackoff: the delay before the attempt, a time.Duration (int64
\* nanoseconds) of DurationBits bits, held as bytes, lowest byte first.

DurationBits == 64

\* largest attempt number of the model
MaxAttempt == 70

Limbs == DurationBits \div 8

\* the int64 of a natural number below 2^31
Int64(n) ==
    [i \in 1..Limbs |-> IF i > 4 THEN 0 ELSE (n \div (256 ^ (i - 1))) % 256]

\* the sum of a[i] * b[k + 1 - i] for i in 1..n: column k of the product
RECURSIVE column(_, _, _, _)
column(a, b, k, n) ==
    IF n = 0 THEN 0 ELSE a[n] * b[k + 1 - n] + column(a, b, k, n - 1)

RECURSIVE mulFrom(_, _, _, _)
mulFrom(a, b, k, carry) ==
    IF k > Limbs THEN <<>>
    ELSE LET t == column(a, b, k, k) + carry
         IN  <<t % 256>> \o mulFrom(a, b, k + 1, t \div 256)

\* a * b on int64, wrapping: the bytes beyond the width are lost
mul64(a, b) == mulFrom(a, b, 1, 0)

\* a < b as unsigned numbers, decided at the highest byte that differs
RECURSIVE lessFrom(_, _, _)
lessFrom(a, b, i) ==
    IF i = 0 THEN FALSE
    ELSE IF a[i] # b[i] THEN a[i] < b[i]
    ELSE lessFrom(a, b, i - 1)

\* the sign bit of an int64
negative64(a) == a[Limbs] >= 128

\* a < b on int64
less64(a, b) ==
    IF negative64(a) # negative64(b) THEN negative64(a)
    ELSE lessFrom(a, b, Limbs)

min64(a, b) == IF less64(b, a) THEN b ELSE a

\* time.Duration(math.Pow(2, float64(k))): exact while 2^k is an int64; the
\* conversion of a float64 beyond the int64 range is implementation-dependent:
\* the smallest int64 (amd64) or the largest (arm64)
durationOfPow2(k) ==
    IF k < DurationBits - 1
    THEN {[i \in 1..Limbs |-> IF i = (k \div 8) + 1 THEN 2 ^ (k % 8) ELSE 0]}
    ELSE {[i \in 1..Limbs |-> IF i = Limbs THEN 128 ELSE 0],
          [i \in 1..Limbs |-> IF i = Limbs THEN 127 ELSE 255]}

\* the delays retryWithBackoff may compute for the attempt
retryDelays(attempt) ==
    LET millisecond == Int64(1000000)
        second      == Int64(1000000000)
    IN  {min64(mul64(mul64(d, Int64(500)), millisecond), mul64(Int64(30), second)) :
            d \in durationOfPow2(attempt - 1)}

\* retryWithBackoff computes its delay
BackoffDelay ==
    /\ rbPc = "called"
    /\ rbDelay' \in retryDelays(rbAttempt)
    /\ rbPc' = "wait"
    /\ UNCHANGED rbAttempt
    /\ UNCHANGED <<cfgVars, keyVars, ingestVars, permVars, powVars, mineVars, relayVars>>
    /\ UNCHANGED <<listenVars, crawlVars, shutVars, sendVars, lockVars, timerVars, pubVars, callVars>>

InitBackoff ==
    /\ InitConfigIngest
    /\ InitIngest
    /\ delivered = 0
    /\ enqCount = [id \in EventIds |-> 0]
    /\ arrivals = [id \in EventIds |-> 0]
    /\ evicted = {}
    /\ IdlePerm
    /\ IdlePoW
    /\ IdleMine
    /\ IdleRelay
    /\ IdleListen
    /\ IdleCrawl
    /\ IdleShut
    /\ IdleSend
    /\ IdleLock
    /\ IdleTimer
    /\ IdlePub
    /\ IdleCall
    /\ rbPc = "called"
    /\ rbAttempt \in 1..MaxAttempt
    /\ rbDelay = <<>>

NextBackoff == BackoffDelay

SpecBackoff == InitBackoff /\ [][NextBackoff]_vars

\* min(2^(attempt-1) * 500 ms, 30 s) in nanoseconds: 2^(attempt-1) half
\* seconds, at most 60 of them
cappedDelay(attempt) ==
    LET halfSeconds == IF attempt - 1 >= 6 THEN 60
                       ELSE IF 2^(attempt - 1) < 60 THEN 2^(attempt - 1) ELSE 60
    IN  mul64(Int64(halfSeconds), Int64(500000000))

----------------------------------------------------------------------------
\* The listener of a managed relay: listenForEvents, retryWithBackoff.

maxReconnectAttempts == 3

\* the URL is not looked up in the discovery store
isDiscovered_never(url) == FALSE

\* _, isDiscovered := c.discoveredStore.Relays[mr.url]
isDiscovered(url) == url \in discovered

\* the Events channel of subscription k of managed relay m is closed: the
\* relay closed it, or the client unsubscribed
eventsClosed(m, k) == <<m, k>> \in closedSubs \/ ~subs[m][k].live

listenFrame ==
    /\ UNCHANGED <<cfgVars, keyVars, permVars, powVars, mineVars>>
    /\ UNCHANGED <<crawlVars, shutVars, sendVars, lockVars, backoffVars, timerVars, pubVars, callVars>>
    /\ UNCHANGED <<seenCache, lpc, lev, orderBuf, orderTimers, userContext, lastBatch,
                   delivered, enqCount, arrivals, evicted>>
    /\ UNCHANGED <<rpc, desiredRelays, reps, nconns, calls, rhist>>

\* a relay closes the current subscription of managed relay m
SubClose(m) ==
    /\ ncloses < MaxCloses
    /\ lis[m].pc \notin {"none", "exited"}
    /\ mrSubscription[m] # 0
    /\ ~eventsClosed(m, mrSubscription[m])
    /\ closedSubs' = closedSubs \cup {<<m, mrSubscription[m]>>}
    /\ ncloses' = ncloses + 1
    /\ UNCHANGED <<mrConnected, mrAttempts, lis, discovered>>
    /\ UNCHANGED <<relays, mrSubscription, mrClosed, subs, failCache, uiEvents>>
    /\ listenFrame

\* the top of the loop: the context is tested, mr.subscription is read (a
\* nil subscription is polled again after 200 ms)
LisLoop(m) ==
    /\ lis[m].pc = "loop"
    /\ IF cancelled
       THEN lis' = [lis EXCEPT ![m].pc = "exited", ![m].exit = "ctx"]
       ELSE /\ mrSubscription[m] # 0
            /\ lis' = [lis EXCEPT ![m].pc = "select", ![m].sub = mrSubscription[m]]
    /\ UNCHANGED <<mrConnected, mrAttempts, closedSubs, discovered, ncloses>>
    /\ UNCHANGED <<relays, mrSubscription, mrClosed, subs, failCache, uiEvents>>
    /\ listenFrame

\* the select: the context is done, or the Events channel is closed
LisSelect(m, ctxDone) ==
    /\ lis[m].pc = "select"
    /\ IF ctxDone
       THEN /\ cancelled
            /\ lis' = [lis EXCEPT ![m].pc = "exited", ![m].exit = "ctx"]
       ELSE /\ eventsClosed(m, lis[m].sub)
            /\ lis' = [lis EXCEPT ![m].pc = "closed",
                                  ![m].oldChats = mrCurrentChatsLocked(m, lis[m].sub)]
    /\ UNCHANGED <<mrConnected, mrAttempts, closedSubs, discovered, ncloses>>
    /\ UNCHANGED <<relays, mrSubscription, mrClosed, subs, failCache, uiEvents>>
    /\ listenFrame

\* markRelayFailed(url)
markRelayFailed(url) == failCache \cup {url}

\* delete(c.relays, mr.url)
deleteRelay(url) == [relays EXCEPT ![url] = 0]

\* the closed-channel branch up to retryWithBackoff: a subscription that was
\* replaced meanwhile is left; otherwise the relay is marked disconnected and
\* then dropped (discovered relay, no chats, attempts above the ceiling) or
\* handed to retryWithBackoff
LisClosed(m) ==
    /\ lis[m].pc = "closed"
    /\ LET url      == lis[m].url
           conn     == [mrConnected EXCEPT ![m] = FALSE]
           first    == relaysUpdate(relays, conn)
           dropped  == relaysUpdate(deleteRelay(url), conn)
           attempts == mrAttempts[m] + 1
       IN  IF mrSubscription[m] # lis[m].sub
           THEN /\ lis' = [lis EXCEPT ![m].pc = "loop"]
                /\ UNCHANGED <<mrSubscription, mrConnected, mrAttempts, relays, failCache,
                               uiEvents>>
           ELSE /\ mrSubscription' = [mrSubscription EXCEPT ![m] = 0]
                /\ mrConnected' = conn
                /\ IF isDiscovered(url)
                   THEN /\ relays' = deleteRelay(url)
                        /\ failCache' = markRelayFailed(url)
                        /\ uiEvents' = uiEvents \o <<first, dropped>>
                        /\ lis' = [lis EXCEPT ![m].pc = "exited", ![m].exit = "discovered",
                                              ![m].disc = url \in discovered]
                        /\ UNCHANGED mrAttempts
                   ELSE IF Len(lis[m].oldChats) = 0
                   THEN /\ relays' = deleteRelay(url)
                        /\ uiEvents' = uiEvents \o <<first, dropped>>
                        /\ lis' = [lis EXCEPT ![m].pc = "exited", ![m].exit = "nochats",
                                              ![m].disc = url \in discovered]
                        /\ UNCHANGED <<mrAttempts, failCache>>
                   ELSE /\ mrAttempts' = [mrAttempts EXCEPT ![m] = attempts]
                        /\ IF attempts > maxReconnectAttempts
                           THEN /\ relays' = deleteRelay(url)
                                /\ uiEvents' = uiEvents \o
                                       <<first, DE("ERROR", <<"Giving up", url>>), dropped>>
                                /\ lis' = [lis EXCEPT ![m].pc = "exited",
                                                      ![m].exit = "ceiling",
                                                      ![m].attempts = attempts,
                                                      ![m].disc = url \in discovered]
                           ELSE /\ uiEvents' = Append(uiEvents, first)
                                /\ lis' = [lis EXCEPT ![m].pc = "backoff",
                                                      ![m].attempts = attempts,
                                                      ![m].disc = url \in discovered]
                                /\ UNCHANGED relays
                        /\ UNCHANGED failCache
    /\ UNCHANGED <<closedSubs, discovered, ncloses, mrClosed, subs>>
    /\ listenFrame

\* the listener gives up: ERROR event, the relay leaves the table
lisGiveUp(m, tried) ==
    /\ relays' = deleteRelay(lis[m].url)
    /\ uiEvents' = uiEvents \o
           <<DE("ERROR", <<"Could not re-establish subscription", lis[m].url>>),
             relaysUpdate(deleteRelay(lis[m].url), mrConnected)>>
    /\ lis' = [lis EXCEPT ![m].pc = "exited", ![m].exit = "failed", ![m].resubs = @ + tried]
    /\ UNCHANGED <<mrSubscription, mrConnected, mrAttempts, subs>>

\* the listener is connected again: the counter is reset, the UI is told
lisReconnected(m, sub, all, events, tried) ==
    /\ mrSubscription' = [mrSubscription EXCEPT ![m] = sub]
    /\ subs' = all
    /\ mrConnected' = [mrConnected EXCEPT ![m] = TRUE]
    /\ mrAttempts' = [mrAttempts EXCEPT ![m] = 0]
    /\ uiEvents' = uiEvents \o events \o <<relaysUpdate(relays, mrConnected')>>
    /\ lis' = [lis EXCEPT ![m].pc = "loop", ![m].reconnects = @ + 1,
                          ![m].resubs = @ + tried]
    /\ UNCHANGED relays

\* retryWithBackoff: the context is done before the delay is over, or fn is
\* called: replaceSubscription compares the chats of the current
\* subscription with the chats wanted
LisBackoff(m, ctxDone) ==
    /\ lis[m].pc = "backoff"
    /\ IF ctxDone
       THEN cancelled /\ lisGiveUp(m, 0)
       ELSE IF sameStringSet(mrCurrentChatsLocked(m, mrSubscription[m]), lis[m].oldChats)
       THEN lisReconnected(m, mrSubscription[m], subs, <<>>, 0)
       ELSE /\ lis' = [lis EXCEPT ![m].pc = "subscribe"]
            /\ UNCHANGED <<mrSubscription, mrConnected, mrAttempts, subs, relays, uiEvents>>
    /\ UNCHANGED <<closedSubs, discovered, ncloses, mrClosed, failCache>>
    /\ listenFrame

\* replaceSubscription of the listener from Subscribe on, and the listener's
\* handling of its result
LisSubscribe(m, ok) ==
    /\ lis[m].pc = "subscribe"
    /\ IF ok
       THEN /\ ~cancelled
            /\ ~mrClosed[m]
            /\ Len(subs[m]) < MaxSubs
            /\ LET new  == Len(subs[m]) + 1
                   old  == mrSubscription[m]
                   all  == [subs EXCEPT ![m] = Append(@, [chats |-> lis[m].oldChats,
                                                          live |-> TRUE])]
                   all2 == IF old = 0 THEN all ELSE unsubscribed(all, m, old)
               IN  lisReconnected(m, installSubscription(old, new), all2,
                                  <<relaysUpdate(relays, mrConnected)>>, 1)
       ELSE lisGiveUp(m, 1)
    /\ UNCHANGED <<closedSubs, discovered, ncloses, mrClosed, failCache>>
    /\ listenFrame

\* the managed relays of the relays connected at the start
Connected == {RelayIndex(u) : u \in Relays}

\* two relays are connected and subscribed for the active group, a listener
\* runs for each; r2 may come from the discovery store
InitListen ==
    /\ views = MineViews
    /\ activeViewName = GroupAB
    /\ blockedUsers = {}
    /\ mutes = <<>>
    /\ filters = <<>>
    /\ mainKey = 1
    /\ chatKeys = [c \in ChatNames |-> 0]
    /\ lastEmitted = <<>>
    /\ InitIngest
    /\ IdlePerm
    /\ IdlePoW
    /\ IdleMine
    /\ IdleCrawl
    /\ IdleShut
    /\ IdleSend
    /\ IdleLock
    /\ IdleBackoff
    /\ IdleTimer
    /\ IdlePub
    /\ IdleCall
    /\ discovered \in {{}, {"r2"}}
    /\ relays = [u \in Relays |-> RelayIndex(u)]
    /\ mrSubscription = [m \in ConnIds |-> IF m \in Connected THEN 1 ELSE 0]
    /\ mrClosed = [m \in ConnIds |-> FALSE]
    /\ subs = [m \in ConnIds |->
                  IF m \notin Connected THEN <<>>
                  ELSE << [chats |-> IF m = 1 \/ "r2" \in discovered THEN <<"a", "b">>
                                     ELSE <<"b">>,
                           live |-> TRUE] >>]
    /\ failCache = {}
    /\ rpc = "idle"
    /\ desiredRelays = <<>>
    /\ reps = [i \in RepIds |-> NoRep]
    /\ nconns = MaxConns
    /\ calls = 0
    /\ rhist = NoHist
    /\ mrConnected = [m \in ConnIds |-> m \in Connected]
    /\ mrAttempts = [m \in ConnIds |-> 0]
    /\ lis = [m \in ConnIds |->
                 IF m \notin Connected THEN NoLis
                 ELSE [NoLis EXCEPT !.pc = "loop",
                                    !.url = CHOOSE u \in Relays : RelayIndex(u) = m]]
    /\ closedSubs = {}
    /\ ncloses = 0

NextListen ==
    \/ \E m \in ConnIds : SubClose(m)
    \/ \E m \in ConnIds : LisLoop(m)
    \/ \E m \in ConnIds, ctxDone \in BOOLEAN : LisSelect(m, ctxDone)
    \/ \E m \in ConnIds : LisClosed(m)
    \/ \E m \in ConnIds, ctxDone \in BOOLEAN : LisBackoff(m, ctxDone)
    \/ \E m \in ConnIds, ok \in BOOLEAN : LisSubscribe(m, ok)
    \/ Shutdown

SpecListen == InitListen /\ [][NextListen]_vars

\* an event of the given type about the URL was sent to the UI
uiEventAbout(type, url) ==
    \E i \in 1..Len(uiEvents) :
        /\ uiEvents[i].Type = type
        /\ uiEvents[i].Content[2] = url

\* C11: a relay that is not in the discovery store leaves the relay table
\* with an ERROR event only after its attempt counter exceeded
\* maxReconnectAttempts; a failed re-subscription below the ceiling leaves it
\* in the table.
C11_AbandonedOnlyAfterCeiling ==
    \A m \in ConnIds :
        (lis[m].pc = "exited" /\ uiEventAbout("ERROR", lis[m].url))
            => lis[m].attempts > maxReconnectAttempts

\* C12: when the current subscription of a relay of the discovery store
\* closes, the listener removes the relay from the table and exits, without
\* a re-subscription attempt and without an ERROR event.
C12_DiscoveredDroppedSilently ==
    \A m \in ConnIds :
        lis[m].disc =>
            /\ lis[m].pc = "exited"
            /\ relays[lis[m].url] = 0
            /\ lis[m].resubs = 0
            /\ ~uiEventAbout("ERROR", lis[m].url)

C12_DiscoveredRelayClosed ==
    \E m \in ConnIds : lis[m].disc /\ lis[m].exit = "discovered" /\ ~cancelled

\* C13: after a successful re-subscription of a required relay a STATUS
\* event that reports the reconnection has been sent to the UI.
C13_ReconnectionStatusEmitted ==
    \A m \in ConnIds :
        lis[m].reconnects > 0 => uiEventAbout("STATUS", lis[m].url)

\* ---------------------------------------------------------------------------
\* Relay discovery: discoverOnAnchor, parseRelayEvent and the verification
\* goroutine (types.go).  Every goroutine is a slot with a program counter.
\* ---------------------------------------------------------------------------

maxDiscoveryDepth == 2
discoveryKind == 10002
\* ceiling of concurrently active crawl tasks (10 in the source, scaled)
maxActiveDiscoveries == 2

CrawlUrls == Relays \cup {"r3"}

\* normalizeRelayURL: canonical URL, "" for a malformed or non-wss URL
normalizeRelayURL(raw) ==
    CASE raw \in CrawlUrls -> raw
      [] raw = "R2/" -> "r2"
      [] OTHER -> ""

\* strings.ToLower(strings.TrimSpace(s))
lowerTrim(s) ==
    CASE s = "Read " -> "read"
      [] s = " WRITE" -> "write"
      [] OTHER -> s

RelayListEvent(kind, tags) == [Kind |-> kind, Tags |-> tags]

DiscoveryEvents ==
    { RelayListEvent(discoveryKind, << <<"r", "r2">>, <<"r", "r3">> >>),
      RelayListEvent(discoveryKind, << <<"r", "R2/">>, <<"r", "r1">> >>),
      RelayListEvent(discoveryKind,
                     << <<"r", "r3", "Read ">>, <<"e", "r2">>, <<"r", "ws">>, <<"r">> >>),
      RelayListEvent(1, << <<"r", "r2">> >>) }

depthAllowed_always(depth) == TRUE

\* if depth > maxDiscoveryDepth { return }
depthAllowed(depth) == ~(depth > maxDiscoveryDepth)

inFailCache_never(cache, url) == FALSE

\* c.verifyFailCache.Contains(url)
inFailCache(cache, url) == url \in cache

markVerifying_not(set, url) == set

\* c.verifying[url] = struct{}{}
markVerifying(set, url) == set \cup {url}

\* the tag's candidate URL, "" when a filter before the fail-cache check skips it
tagCandidate(tag) ==
    IF Len(tag) < 2 \/ tag[1] # "r" THEN ""
    ELSE LET url == normalizeRelayURL(tag[2]) IN
         IF url = "" THEN ""
         ELSE IF Len(tag) >= 3 /\ lowerTrim(tag[3]) \in {"read", "write"} THEN ""
         ELSE IF \E a \in AnchorRelays : normalizeRelayURL(a) = url THEN ""
         ELSE url

RECURSIVE candidates(_)
\* the candidate URLs of a tag list, in order
candidates(tags) ==
    IF tags = <<>> THEN <<>>
    ELSE LET url == tagCandidate(Head(tags)) IN
         IF url = "" THEN candidates(Tail(tags)) ELSE <<url>> \o candidates(Tail(tags))

\* the URLs parseRelayEvent brings to the fail-cache check, in order
eventCandidates(ev) == IF ev.Kind # discoveryKind THEN <<>> ELSE candidates(ev.Tags)

FreeSlot(ids, table) == CHOOSE i \in ids : table[i].pc = "none" /\
                            \A j \in ids : table[j].pc = "none" => i <= j
HasFreeSlot(ids, table) == \E i \in ids : table[i].pc = "none"

RECURSIVE pendingCandidates(_)
\* the tags the running parseRelayEvent goroutines of ps still bring to the
\* uniqueness block
pendingCandidates(ps) ==
    IF ps = {} THEN 0
    ELSE LET p == CHOOSE q \in ps : TRUE IN
         Len(parsers[p].urls) + (IF parsers[p].pc = "lock" THEN 1 ELSE 0)
             + pendingCandidates(ps \ {p})

\* the events delivered are those whose verifications fit the goroutine slots
admitted(ev) ==
    Len(eventCandidates(ev)) + pendingCandidates(ParseIds)
        <= Cardinality({v \in VerifIds : verifs[v].pc = "none"})

\* a goroutine that returned
Exited(none) == [none EXCEPT !.pc = "exited"]

crawlFrame ==
    /\ UNCHANGED <<cfgVars, keyVars, ingestVars, permVars, powVars, mineVars>>
    /\ UNCHANGED <<relays, mrSubscription, mrClosed, subs, rpc, desiredRelays,
                   reps, nconns, calls, rhist>>
    /\ UNCHANGED <<mrConnected, mrAttempts, lis, closedSubs>>
    /\ UNCHANGED <<shutVars, sendVars, lockVars, backoffVars, timerVars, pubVars, callVars>>

\* depth guard, then atomic.LoadInt32(&c.activeDiscoveries) >= max
CrawlCheck(i) ==
    /\ crawl[i].pc = "start"
    /\ IF ~depthAllowed(crawl[i].depth)
         THEN crawl' = [crawl EXCEPT ![i] = Exited(NoCrawl)]
         ELSE IF activeDiscoveries >= maxActiveDiscoveries
           THEN crawl' = [crawl EXCEPT ![i] = Exited(NoCrawl)]
           ELSE crawl' = [crawl EXCEPT ![i].pc = "checked"]
    /\ UNCHANGED <<chist, activeDiscoveries, parsers, verifs, verifying, failCache, discovered, ncloses>>
    /\ crawlFrame

\* atomic.AddInt32(&c.activeDiscoveries, 1)
CrawlEnter(i) ==
    /\ crawl[i].pc = "checked"
    /\ activeDiscoveries' = activeDiscoveries + 1
    /\ crawl' = [crawl EXCEPT ![i].pc = "loop"]
    /\ UNCHANGED <<chist, parsers, verifs, verifying, failCache, discovered, ncloses>>
    /\ crawlFrame

contextDone_never == FALSE

\* case <-c.ctx.Done() is ready
contextDone == cancelled

\* outer loop: context check, RelayConnect, Subscribe
CrawlConnect(i, ok) ==
    /\ crawl[i].pc = "loop"
    /\ IF contextDone
         THEN /\ crawl' = [crawl EXCEPT ![i] = Exited(NoCrawl)]
              /\ activeDiscoveries' = activeDiscoveries - 1
              /\ UNCHANGED chist
         ELSE /\ chist' = [chist EXCEPT !.connDepths = @ \cup {crawl[i].depth}]
              /\ crawl' = [crawl EXCEPT ![i].pc = IF ok THEN "read" ELSE "loop"]
              /\ UNCHANGED activeDiscoveries
    /\ UNCHANGED <<parsers, verifs, verifying, failCache, discovered, ncloses>>
    /\ crawlFrame

\* case ev, ok := <-sub.Events with ok: go parseRelayEvent(ev, depth)
CrawlEvent(i, ev) ==
    /\ crawl[i].pc = "read"
    /\ HasFreeSlot(ParseIds, parsers)
    /\ admitted(ev)
    /\ parsers' = [parsers EXCEPT ![FreeSlot(ParseIds, parsers)] =
            [pc |-> "parse", urls |-> eventCandidates(ev), depth |-> crawl[i].depth,
             url |-> "", skipped |-> "",
             since |-> {u \in failCache : SeqContains(eventCandidates(ev), u)}]]
    /\ UNCHANGED <<activeDiscoveries, crawl, verifs, verifying, chist, failCache,
                   discovered, ncloses>>
    /\ crawlFrame

\* case ev, ok := <-sub.Events with !ok: reconnect
CrawlLost(i) ==
    /\ crawl[i].pc = "read"
    /\ crawl' = [crawl EXCEPT ![i].pc = "loop"]
    /\ UNCHANGED <<activeDiscoveries, parsers, verifs, verifying, chist, failCache,
                   discovered, ncloses>>
    /\ crawlFrame

\* case <-c.ctx.Done() of the reading loop
CrawlCancelled(i) ==
    /\ crawl[i].pc = "read"
    /\ contextDone
    /\ crawl' = [crawl EXCEPT ![i] = Exited(NoCrawl)]
    /\ activeDiscoveries' = activeDiscoveries - 1
    /\ UNCHANGED <<parsers, verifs, verifying, chist, failCache, discovered, ncloses>>
    /\ crawlFrame

\* parseRelayEvent: the next candidate tag up to the fail-cache check; the
\* goroutine returns after the last tag
ParseTag(p) ==
    /\ parsers[p].pc = "parse"
    /\ IF parsers[p].urls = <<>>
         THEN parsers' = [parsers EXCEPT ![p] = Exited(NoParse)]
         ELSE LET url == Head(parsers[p].urls)
                  rest == Tail(parsers[p].urls)
              IN  IF inFailCache(failCache, url)
                    THEN parsers' = [parsers EXCEPT ![p].urls = rest,
                                                    ![p].skipped = "failed"]
                    ELSE parsers' = [parsers EXCEPT ![p].urls = rest, ![p].url = url,
                                                    ![p].pc = "lock"]
    /\ UNCHANGED <<activeDiscoveries, crawl, verifs, verifying, chist, failCache,
                   discovered, ncloses>>
    /\ crawlFrame

\* store.Relays[url] read without store.mu: either value while a verification
\* goroutine is writing the map
storeReads(url) ==
    IF \E v \in VerifIds : verifs[v].pc = "store" THEN BOOLEAN ELSE {url \in discovered}

\* the block under verifyingMu: uniqueness checks, mark, go func(url)
ParseLock(p, inStore) ==
    LET url == parsers[p].url IN
    /\ parsers[p].pc = "lock"
    /\ inStore \in storeReads(url)
    /\ IF url \in verifying
         THEN /\ parsers' = [parsers EXCEPT ![p].pc = "parse", ![p].skipped = "verifying"]
              /\ UNCHANGED <<verifs, verifying>>
         ELSE IF (url \in Relays /\ relays[url] # 0) \/ inStore
           THEN /\ parsers' = [parsers EXCEPT ![p].pc = "parse"]
                /\ UNCHANGED <<verifs, verifying>>
           ELSE /\ HasFreeSlot(VerifIds, verifs)
                /\ verifying' = markVerifying(verifying, url)
                /\ verifs' = [verifs EXCEPT ![FreeSlot(VerifIds, verifs)] =
                        [pc |-> "verify", url |-> url, depth |-> parsers[p].depth,
                         ok |-> FALSE, later |-> url \in parsers[p].since]]
                /\ parsers' = [parsers EXCEPT ![p].pc = "parse"]
    /\ UNCHANGED <<activeDiscoveries, crawl, chist, failCache, discovered, ncloses>>
    /\ crawlFrame

\* ok := c.verifyRelay(url, verifyTimeout); !ok: c.verifyFailCache.Add(url, true)
VerifyDone(v, ok) ==
    /\ verifs[v].pc = "verify"
    /\ IF ok
         THEN /\ verifs' = [verifs EXCEPT ![v].pc = "store", ![v].ok = TRUE]
              /\ chist' = [chist EXCEPT !.verified = @ \cup {verifs[v].url}]
              /\ UNCHANGED failCache
         ELSE /\ verifs' = [verifs EXCEPT ![v].pc = "unmark"]
              /\ failCache' = failCache \cup {verifs[v].url}
              /\ UNCHANGED chist
    /\ UNCHANGED <<activeDiscoveries, crawl, parsers, verifying, discovered, ncloses>>
    /\ crawlFrame

\* the store is left as it was
storeRelay_skipped(store, url) == store

\* store.Relays[url] = DiscoveredRelay{URL: url, ...}
storeRelay(store, url) == store \cup {url}

\* store.Relays[url] = ...; go manageRelayConnection; triggerSubUpdate;
\* if depth < maxDiscoveryDepth { go c.discoverOnAnchor(url, depth+1) }
VerifyStore(v) ==
    /\ verifs[v].pc = "store"
    /\ discovered' = storeRelay(discovered, verifs[v].url)
    /\ chist' = [chist EXCEPT !.connected = @ \cup {verifs[v].url}]
    /\ verifs' = [verifs EXCEPT ![v].pc = "unmark"]
    /\ IF verifs[v].depth < maxDiscoveryDepth
         THEN /\ HasFreeSlot(CrawlIds, crawl)
              /\ crawl' = [crawl EXCEPT ![FreeSlot(CrawlIds, crawl)] =
                      [pc |-> "start", url |-> verifs[v].url, depth |-> verifs[v].depth + 1]]
         ELSE UNCHANGED crawl
    /\ UNCHANGED <<activeDiscoveries, parsers, verifying, failCache, ncloses>>
    /\ crawlFrame

\* deferred: delete(c.verifying, url)
VerifyUnmark(v) ==
    /\ verifs[v].pc = "unmark"
    /\ verifying' = verifying \ {verifs[v].url}
    /\ verifs' = [verifs EXCEPT ![v] = Exited(NoVerif)]
    /\ UNCHANGED <<activeDiscoveries, crawl, parsers, chist, failCache, discovered, ncloses>>
    /\ crawlFrame

\* the bounded failure cache drops an entry
FailCacheEvict(u) ==
    /\ u \in failCache
    /\ failCache' = failCache \ {u}
    /\ parsers' = [p \in ParseIds |-> [parsers[p] EXCEPT !.since = @ \ {u}]]
    /\ UNCHANGED <<activeDiscoveries, crawl, verifs, verifying, chist, discovered, ncloses>>
    /\ crawlFrame

\* discoverRelays(anchors, depth): one task per anchor
InitCrawl ==
    /\ views = MineViews
    /\ activeViewName = "a"
    /\ blockedUsers = {}
    /\ mutes = <<>>
    /\ filters = <<>>
    /\ mainKey = 1
    /\ chatKeys = [c \in ChatNames |-> IF c = activeViewName THEN 2 ELSE 0]
    /\ lastEmitted = <<>>
    /\ seenCache = <<>>
    /\ lpc = [r \in Relays |-> "recv"]
    /\ lev = [r \in Relays |-> NoEvent]
    /\ orderBuf = [k \in StreamKeys |-> <<>>]
    /\ orderTimers = {}
    /\ userContext = [p \in PubKeys |-> ""]
    /\ uiEvents = <<>>
    /\ lastBatch = <<>>
    /\ delivered = 0
    /\ enqCount = [id \in EventIds |-> 0]
    /\ arrivals = [id \in EventIds |-> 0]
    /\ evicted = {}
    /\ IdlePerm
    /\ IdlePoW
    /\ IdleMine
    /\ IdleRelay
    /\ IdleListen
    /\ IdleShut
    /\ IdleSend
    /\ IdleLock
    /\ IdleBackoff
    /\ IdleTimer
    /\ IdlePub
    /\ IdleCall
    /\ activeDiscoveries = 0
    /\ \E depth \in (maxDiscoveryDepth - 1)..(maxDiscoveryDepth + 1) :
         crawl = [i \in CrawlIds |->
                    IF i = 1 THEN [pc |-> "start", url |-> "r1", depth |-> depth]
                    ELSE NoCrawl]
    /\ parsers = [i \in ParseIds |-> NoParse]
    /\ verifs = [i \in VerifIds |-> NoVerif]
    /\ verifying = {}
    /\ chist = NoCrawlHist

NextCrawl ==
    \/ \E i \in CrawlIds : CrawlCheck(i)
    \/ \E i \in CrawlIds : CrawlEnter(i)
    \/ \E i \in CrawlIds, ok \in BOOLEAN : CrawlConnect(i, ok)
    \/ \E i \in CrawlIds, ev \in DiscoveryEvents : CrawlEvent(i, ev)
    \/ \E i \in CrawlIds : CrawlLost(i)
    \/ \E p \in ParseIds : ParseTag(p)
    \/ \E p \in ParseIds, inStore \in BOOLEAN : ParseLock(p, inStore)
    \/ \E v \in VerifIds, ok \in BOOLEAN : VerifyDone(v, ok)
    \/ \E v \in VerifIds : VerifyStore(v)
    \/ \E v \in VerifIds : VerifyUnmark(v)
    \/ \E u \in CrawlUrls : FailCacheEvict(u)

SpecCrawl == InitCrawl /\ [][NextCrawl]_vars


\* C14: no crawl task attempts a connection at a depth greater than
\* maxDiscoveryDepth: a task past the depth guard, and every depth at which a
\* connection was attempted, is at most maxDiscoveryDepth
C14_NoConnectionBeyondMaxDepth ==
    /\ \A d \in chist.connDepths : d <= maxDiscoveryDepth
    /\ \A i \in CrawlIds :
         crawl[i].pc \in {"checked", "loop", "read"} => crawl[i].depth <= maxDiscoveryDepth

\* a relay found at the deepest level is verified and stored, and is not crawled
C14_LeafVerifiedNotCrawled ==
    /\ maxDiscoveryDepth \in chist.connDepths
    /\ \E v \in VerifIds : /\ verifs[v].pc = "unmark"
                           /\ verifs[v].ok
                           /\ verifs[v].depth = maxDiscoveryDepth
    /\ \A i \in CrawlIds : crawl[i].pc # "none" => crawl[i].depth <= maxDiscoveryDepth

\* C15: the activeDiscoveries counter never exceeds maxActiveDiscoveries,
\* whatever the interleaving of the crawl tasks
C15_ActiveDiscoveriesWithinCeiling == activeDiscoveries <= maxActiveDiscoveries

\* the verification goroutines of a URL that have not yet unmarked it
verifiesInProgress(url) ==
    {v \in VerifIds : verifs[v].pc \in {"verify", "store", "unmark"} /\ verifs[v].url = url}

\* C16: for every URL at most one verification is in progress, and the URL is
\* in the verifying set exactly from the start of its verification until the
\* outcome has been recorded
C16_OneVerificationPerUrl ==
    \A url \in CrawlUrls :
        /\ Cardinality(verifiesInProgress(url)) <= 1
        /\ url \in verifying <=> verifiesInProgress(url) # {}
        /\ \A v \in verifiesInProgress(url) :
             verifs[v].pc = "unmark" /\ verifs[v].ok => url \in discovered

C16_DuplicateSuppressed ==
    \E p \in ParseIds : /\ parsers[p].skipped = "verifying"
                        /\ \E url \in CrawlUrls : verifiesInProgress(url) # {}

\* C17: an event received while a URL is in the failure cache starts no
\* verification of that URL as long as the URL stays in the cache
C17_FailedUrlNotReverified ==
    /\ \A v \in VerifIds : ~verifs[v].later
    /\ \A p \in ParseIds : parsers[p].since \subseteq failCache

\* an event naming a failed URL was parsed and its tag skipped
C17_FailedUrlSkipped ==
    \E p \in ParseIds : parsers[p].skipped = "failed" /\ parsers[p].since # {}


\* ---------------------------------------------------------------------------
\* Shutdown: c.cancel(), the flush goroutines of the stopped timers,
\* c.wg.Wait(), the SHUTDOWN event, the return of Run (client.go).
\* ---------------------------------------------------------------------------

\* a goroutine counted by c.wg has not returned yet
tasksRunning ==
    \/ \E m \in ConnIds : lis[m].pc \notin {"none", "exited"}
    \/ \E i \in CrawlIds : crawl[i].pc \notin {"none", "exited"}
    \/ \E p \in ParseIds : parsers[p].pc \notin {"none", "exited"}
    \/ \E v \in VerifIds : verifs[v].pc \notin {"none", "exited"}

quitFrame ==
    /\ UNCHANGED <<cfgVars, keyVars, permVars, powVars, mineVars, relayVars>>
    /\ UNCHANGED <<listenVars, crawlVars, sendVars, lockVars, backoffVars, timerVars, pubVars, callVars>>
    /\ UNCHANGED ingestRest

\* c.wg.Wait() returns
ShutdownWait ==
    /\ spc \in {"wait", "wait_closed"}
    /\ ~tasksRunning
    /\ spc' = IF spc = "wait" THEN "send" ELSE "send_closed"
    /\ UNCHANGED <<flushers, orderBuf, orderTimers, uiEvents, lastBatch>>
    /\ quitFrame

\* select: the SHUTDOWN event is sent, or 200 ms pass
ShutdownSend(sent) ==
    /\ spc \in {"send", "send_closed"}
    /\ uiEvents' = IF sent THEN Append(uiEvents, DE("SHUTDOWN", <<>>)) ELSE uiEvents
    /\ spc' = IF spc = "send" THEN "loop" ELSE "returned"
    /\ UNCHANGED <<flushers, orderBuf, orderTimers, lastBatch>>
    /\ quitFrame

\* Run's loop after handleAction: case <-c.ctx.Done(): return
RunReturn ==
    /\ spc = "loop"
    /\ spc' = "returned"
    /\ UNCHANGED <<flushers, orderBuf, orderTimers, uiEvents, lastBatch>>
    /\ quitFrame

\* flushOrdered(k) with the context cancelled, started by shutdown for a
\* stopped timer or by a timer armed after it: each send races with ctx.Done,
\* so the first n items are sent and the rest is dropped
FlushAfterCancel(k, n) ==
    /\ cancelled
    /\ k \in flushers \cup orderTimers
    /\ LET batch == SortItems(orderBuf[k]) IN
         /\ n \in 0..Len(batch)
         /\ lastBatch' = SubSeq(batch, 1, n)
         /\ uiEvents' = uiEvents \o [i \in 1..n |-> NewMessage(batch[i])]
    /\ orderBuf' = [orderBuf EXCEPT ![k] = <<>>]
    /\ orderTimers' = orderTimers \ {k}
    /\ flushers' = flushers \ {k}
    /\ UNCHANGED spc
    /\ quitFrame

\* the flush timer of k fires while the client runs
QuitTimerFlush(k) == ~cancelled /\ FlushOrdered(k)

\* the relay whose listener and crawl task run when the client quits
QuitRelay == "r1"
QuitConn == RelayIndex(QuitRelay)

\* the events the relay delivers: chat b, no proof of work
QuitEvents == {e \in InboundEvents : e.PubKey = "u3" /\ e.Content = TxtHi}

\* the listener takes an event from sub.Events and handles it
QuitReceive(ev) == lis[QuitConn].pc = "select" /\ Receive(QuitRelay, ev)

\* the listener is back at its select when handleEvent has returned
QuitLisSelect(ctxDone) == lpc[QuitRelay] = "recv" /\ LisSelect(QuitConn, ctxDone)

InitQuit ==
    /\ views = MineViews
    /\ activeViewName = "b"
    /\ blockedUsers = {}
    /\ mutes = <<>>
    /\ filters = <<>>
    /\ mainKey = 1
    /\ chatKeys = [c \in ChatNames |-> 0]
    /\ lastEmitted = <<>>
    /\ InitIngest
    /\ IdlePerm
    /\ IdlePoW
    /\ IdleMine
    /\ IdleShut
    /\ IdleSend
    /\ IdleLock
    /\ IdleBackoff
    /\ IdleTimer
    /\ IdlePub
    /\ IdleCall
    /\ relays = [u \in Relays |-> IF u = QuitRelay THEN QuitConn ELSE 0]
    /\ mrSubscription = [m \in ConnIds |-> IF m = QuitConn THEN 1 ELSE 0]
    /\ mrClosed = [m \in ConnIds |-> FALSE]
    /\ subs = [m \in ConnIds |->
                  IF m = QuitConn THEN << [chats |-> <<"b">>, live |-> TRUE] >> ELSE <<>>]
    /\ failCache = {"r3"}
    /\ rpc = "idle"
    /\ desiredRelays = <<>>
    /\ reps = [i \in RepIds |-> NoRep]
    /\ nconns = 1
    /\ calls = 0
    /\ rhist = NoHist
    /\ mrConnected = [m \in ConnIds |-> m = QuitConn]
    /\ mrAttempts = [m \in ConnIds |-> 0]
    /\ lis = [m \in ConnIds |->
                 IF m = QuitConn THEN [NoLis EXCEPT !.pc = "loop", !.url = QuitRelay]
                 ELSE NoLis]
    /\ closedSubs = {}
    /\ discovered = {}
    /\ ncloses = MaxCloses - 1
    /\ activeDiscoveries = 1
    /\ crawl = [i \in CrawlIds |->
                   IF i = 1 THEN [pc |-> "read", url |-> QuitRelay,
                                  depth |-> maxDiscoveryDepth - 1]
                   ELSE NoCrawl]
    /\ parsers = [p \in ParseIds |-> IF p = 1 THEN NoParse ELSE Exited(NoParse)]
    /\ verifs = [v \in VerifIds |-> IF v = 1 THEN NoVerif ELSE Exited(NoVerif)]
    /\ verifying = {}
    /\ chist = [NoCrawlHist EXCEPT !.connDepths = {maxDiscoveryDepth - 1}]

\* the goroutines' steps
NextQuitTasks ==
    \/ LisLoop(QuitConn)
    \/ \E ctxDone \in BOOLEAN : QuitLisSelect(ctxDone)
    \/ LisClosed(QuitConn)
    \/ \E ctxDone \in BOOLEAN : LisBackoff(QuitConn, ctxDone)
    \/ \E ok \in BOOLEAN : LisSubscribe(QuitConn, ok)
    \/ Dedup(QuitRelay)
    \/ Process(QuitRelay)
    \/ \E i \in CrawlIds : CrawlCheck(i)
    \/ \E i \in CrawlIds : CrawlEnter(i)
    \/ \E i \in CrawlIds, ok \in BOOLEAN : CrawlConnect(i, ok)
    \/ \E i \in CrawlIds : CrawlCancelled(i)
    \/ \E p \in ParseIds : ParseTag(p)
    \/ \E p \in ParseIds, inStore \in BOOLEAN : ParseLock(p, inStore)
    \/ \E v \in VerifIds, ok \in BOOLEAN : VerifyDone(v, ok)
    \/ \E v \in VerifIds : VerifyStore(v)
    \/ \E v \in VerifIds : VerifyUnmark(v)
    \/ ShutdownWait
    \/ \E sent \in BOOLEAN : ShutdownSend(sent)
    \/ RunReturn

NextQuit ==
    \/ NextQuitTasks
    \/ \E ev \in QuitEvents : QuitReceive(ev)
    \/ SubClose(QuitConn)
    \/ \E i \in CrawlIds, ev \in DiscoveryEvents : CrawlEvent(i, ev)
    \/ \E i \in CrawlIds : CrawlLost(i)
    \/ \E k \in StreamKeys : QuitTimerFlush(k)
    \/ \E k \in StreamKeys, n \in 0..MaxDeliveries : FlushAfterCancel(k, n)
    \/ Shutdown
    \/ ActionsClosed

SpecQuit == InitQuit /\ [][NextQuit]_vars


\* C18: SHUTDOWN is the last display event the client emits
C18_ShutdownIsLastEvent ==
    \A i \in 1..Len(uiEvents) : uiEvents[i].Type = "SHUTDOWN" => i = Len(uiEvents)

\* goroutines are scheduled fairly, a select whose ctx.Done case stays or
\* keeps becoming ready takes it, connection and verification attempts time out
QuitFairness ==
    /\ WF_vars(LisLoop(QuitConn))
    /\ SF_vars(QuitLisSelect(TRUE))
    /\ WF_vars(LisClosed(QuitConn))
    /\ WF_vars(\E ctxDone \in BOOLEAN : LisBackoff(QuitConn, ctxDone))
    /\ WF_vars(\E ok \in BOOLEAN : LisSubscribe(QuitConn, ok))
    /\ WF_vars(Dedup(QuitRelay))
    /\ WF_vars(Process(QuitRelay))
    /\ \A i \in CrawlIds :
         /\ WF_vars(CrawlCheck(i))
         /\ WF_vars(CrawlEnter(i))
         /\ WF_vars(\E ok \in BOOLEAN : CrawlConnect(i, ok))
         /\ WF_vars(CrawlCancelled(i))
    /\ \A p \in ParseIds :
         /\ WF_vars(ParseTag(p))
         /\ WF_vars(\E inStore \in BOOLEAN : ParseLock(p, inStore))
    /\ \A v \in VerifIds :
         /\ WF_vars(\E ok \in BOOLEAN : VerifyDone(v, ok))
         /\ WF_vars(VerifyStore(v))
         /\ WF_vars(VerifyUnmark(v))
    /\ WF_vars(ShutdownWait)
    /\ WF_vars(\E sent \in BOOLEAN : ShutdownSend(sent))
    /\ WF_vars(RunReturn)

SpecQuitFair == InitQuit /\ [][NextQuit]_vars /\ QuitFairness

\* C19: once shutdown has begun, every counted goroutine exits, the wait
\* returns and Run returns
C19_ShutdownTerminates == (spc # "run") ~> (spc = "returned" /\ ~tasksRunning)

\* Run has returned after a quit that found a listener, a crawl task and a
\* verification running
C19_RunReturnedAfterTasksExited ==
    /\ spc = "returned"
    /\ ~tasksRunning
    /\ lis[QuitConn].exit = "ctx"
    /\ crawl[1].pc = "exited"
    /\ verifs[1].pc = "exited"
    /\ SeqContains(uiEvents, DE("SHUTDOWN", <<>>))

----------------------------------------------------------------------------
\* publishMessage from the choice of the relays on, and publish, while the
\* listeners of the relays run.

pubFrame ==
    /\ UNCHANGED <<cfgVars, keyVars, permVars, powVars, mineVars>>
    /\ UNCHANGED <<crawlVars, shutVars, sendVars, lockVars, backoffVars, timerVars,
                   callVars>>
    /\ UNCHANGED <<seenCache, lpc, lev, orderBuf, orderTimers, userContext, lastBatch,
                   delivered, enqCount, arrivals, evicted>>
    /\ UNCHANGED <<relays, mrSubscription, mrClosed, subs, rpc, desiredRelays, reps,
                   nconns, calls, rhist>>
    /\ UNCHANGED <<mrAttempts, lis, closedSubs, discovered, ncloses>>

\* the URL of managed relay m
urlOf(m) == CHOOSE u \in Relays : RelayIndex(u) = m

\* relaysForPublishing: the managed relays of c.relays whose URL is in the
\* pool of the chat and not in the failure cache
relaysForPublishing(targetChat) ==
    {relays[u] : u \in {v \in Relays : /\ relays[v] # 0
                                       /\ v \in getRelayPoolForChat(targetChat)
                                       /\ ~relayFailed(v)}}

\* publishMessage of a message without a reply prefix: the target chat is the
\* active chat; the relays are chosen under c.relaysMu
PublishSelect ==
    /\ pubPc = "called"
    /\ LET activeView == getActiveView
           fail(txt)  == /\ uiEvents' = Append(uiEvents, DE("ERROR", txt))
                         /\ pubPc' = "done"
                         /\ UNCHANGED <<pubRelays, pubLeft>>
       IN  IF activeView = NoView THEN fail("no active chat")
           ELSE IF activeView.IsGroup THEN fail("group broadcast disabled")
           ELSE IF activeView.Name = "" THEN fail("active chat invalid")
           ELSE IF relaysForPublishing(activeView.Name) = {} THEN fail("not connected")
           ELSE /\ pubRelays' = relaysForPublishing(activeView.Name)
                /\ pubLeft' = pubRelays'
                /\ pubPc' = "publish"
                /\ UNCHANGED uiEvents
    /\ UNCHANGED <<pubLog, mrConnected, failCache>>
    /\ pubFrame

\* one goroutine of publish: r.relay.Publish(c.ctx, ev) on managed relay m; a
\* failure marks the relay disconnected and failed and sends RELAYS_UPDATE
RelayPublish(m, ok) ==
    /\ pubPc = "publish"
    /\ m \in pubLeft
    /\ pubLeft' = pubLeft \ {m}
    /\ pubLog' = pubLog \cup
           {[url |-> urlOf(m),
             inTable |-> relays[urlOf(m)] = m,
             connected |-> mrConnected[m],
             inPool |-> urlOf(m) \in getRelayPoolForChat(getActiveView.Name),
             failed |-> relayFailed(urlOf(m))]}
    /\ IF ok
       THEN UNCHANGED <<mrConnected, failCache, uiEvents>>
       ELSE /\ mrConnected' = [mrConnected EXCEPT ![m] = FALSE]
            /\ failCache' = markRelayFailed(urlOf(m))
            /\ uiEvents' = Append(uiEvents, relaysUpdate(relays, mrConnected'))
    /\ UNCHANGED <<pubPc, pubRelays>>
    /\ pubFrame

\* publish after wg.Wait: the STATUS event
PublishStatus ==
    /\ pubPc = "publish"
    /\ pubLeft = {}
    /\ pubPc' = "done"
    /\ uiEvents' = Append(uiEvents, DE("STATUS", "sent"))
    /\ UNCHANGED <<pubRelays, pubLeft, pubLog, mrConnected, failCache>>
    /\ pubFrame

\* as the listener runs, with a chat active and one publishMessage call
InitPublish ==
    /\ views = MineViews
    /\ activeViewName \in {"a", "b"}
    /\ blockedUsers = {}
    /\ mutes = <<>>
    /\ filters = <<>>
    /\ mainKey = 1
    /\ chatKeys = [c \in ChatNames |-> 0]
    /\ lastEmitted = <<>>
    /\ InitIngest
    /\ IdlePerm
    /\ IdlePoW
    /\ IdleMine
    /\ IdleCrawl
    /\ IdleShut
    /\ IdleSend
    /\ IdleLock
    /\ IdleBackoff
    /\ IdleTimer
    /\ IdleCall
    /\ discovered = {}
    /\ relays = [u \in Relays |-> RelayIndex(u)]
    /\ mrSubscription = [m \in ConnIds |-> IF m \in Connected THEN 1 ELSE 0]
    /\ mrClosed = [m \in ConnIds |-> FALSE]
    /\ subs = [m \in ConnIds |->
                  IF m \notin Connected THEN <<>>
                  ELSE << [chats |-> <<activeViewName>>, live |-> TRUE] >>]
    /\ failCache = {}
    /\ rpc = "idle"
    /\ desiredRelays = <<>>
    /\ reps = [i \in RepIds |-> NoRep]
    /\ nconns = MaxConns
    /\ calls = 0
    /\ rhist = NoHist
    /\ mrConnected = [m \in ConnIds |-> m \in Connected]
    /\ mrAttempts = [m \in ConnIds |-> 0]
    /\ lis = [m \in ConnIds |->
                 IF m \notin Connected THEN NoLis
                 ELSE [NoLis EXCEPT !.pc = "loop", !.url = urlOf(m)]]
    /\ closedSubs = {}
    /\ ncloses = 0
    /\ pubPc = "called"
    /\ pubRelays = {}
    /\ pubLeft = {}
    /\ pubLog = {}

NextPublish ==
    \/ \E m \in ConnIds : SubClose(m)
    \/ \E m \in ConnIds : LisLoop(m)
    \/ \E m \in ConnIds, ctxDone \in BOOLEAN : LisSelect(m, ctxDone)
    \/ \E m \in ConnIds : LisClosed(m)
    \/ \E m \in ConnIds, ctxDone \in BOOLEAN : LisBackoff(m, ctxDone)
    \/ \E m \in ConnIds, ok \in BOOLEAN : LisSubscribe(m, ok)
    \/ PublishSelect
    \/ \E m \in ConnIds, ok \in BOOLEAN : RelayPublish(m, ok)
    \/ PublishStatus

SpecPublish == InitPublish /\ [][NextPublish]_vars

\* C33: each outbound event is published only to relays that are in the
\* relay table, are connected, belong to the relay pool of the target chat
\* and are not in the failure cache; when there is no such relay nothing is
\* published and an ERROR display event is emitted
C33_PublishedOnlyToSuitableRelays ==
    /\ \A e \in pubLog : e.inTable /\ e.connected /\ e.inPool /\ ~e.failed
    /\ pubPc = "done" /\ pubRelays = {} =>
           /\ pubLog = {}
           /\ SeqContains(uiEvents, DE("ERROR", "not connected"))

----------------------------------------------------------------------------
\* verifyRelay: connect, publish a signed test event, read it back.

\* a run in which nothing but one call of a helper function happens
InitCallBase ==
    /\ InitConfigIngest /\ activeViewName = "a"
    /\ InitIngest
    /\ IdlePerm
    /\ IdlePoW
    /\ IdleMine
    /\ IdleRelay
    /\ IdleListen
    /\ IdleCrawl
    /\ IdleShut
    /\ IdleSend
    /\ IdleLock
    /\ IdleBackoff
    /\ IdleTimer
    /\ IdlePub

callFrame ==
    /\ UNCHANGED <<cfgVars, keyVars, ingestVars, permVars, powVars, mineVars, relayVars>>
    /\ UNCHANGED <<extRest, timerVars, pubVars>>

\* the locals of verifyRelay and what has happened on the read-back
\* subscription
NoVerifyResult ==
    [gotResponse |-> FALSE, returned |-> FALSE, published |-> FALSE,
     subscribed |-> FALSE, echoed |-> FALSE, eose |-> FALSE, closed |-> FALSE,
     timedOut |-> FALSE]

verifyReturn(ret) ==
    /\ callPc' = "returned"
    /\ callResult' = [callResult EXCEPT !.returned = ret]

\* nostr.RelayConnect, the test event, c.sk == "", dummy.Sign
VerifyConnect ==
    /\ callPc = "connect"
    /\ IF callArgs.connectOk /\ callArgs.hasKey /\ callArgs.signOk
       THEN callPc' = "publish" /\ UNCHANGED callResult
       ELSE verifyReturn(FALSE)
    /\ UNCHANGED callArgs
    /\ callFrame

\* relay.Publish(rctx, dummy)
VerifyPublish ==
    /\ callPc = "publish"
    /\ IF callArgs.publishOk
       THEN /\ callPc' = "subscribe"
            /\ callResult' = [callResult EXCEPT !.published = TRUE]
       ELSE verifyReturn(FALSE)
    /\ UNCHANGED callArgs
    /\ callFrame

\* relay.Subscribe(readCtx, filters of the id of the test event)
VerifySubscribe ==
    /\ callPc = "subscribe"
    /\ IF callArgs.subscribeOk
       THEN /\ callPc' = "select"
            /\ callResult' = [callResult EXCEPT !.subscribed = TRUE]
       ELSE verifyReturn(FALSE)
    /\ UNCHANGED callArgs
    /\ callFrame

\* the Events channel is found closed: the value returned
onClosed_gotResponse(gotResponse) == gotResponse

\* if !ok { return false }
onClosed(gotResponse) == FALSE

SelectCases == {"timeout", "event", "nil", "closed", "eose"}

\* one round of the select loop: readCtx is done, an event or a nil event
\* is received, the Events channel is closed, or EndOfStoredEvents is
\* signalled
VerifySelect(case) ==
    /\ callPc = "select"
    /\ CASE case = "timeout" ->
              /\ callPc' = "returned"
              /\ callResult' = [callResult EXCEPT !.timedOut = TRUE,
                                                  !.returned = callResult.gotResponse]
         [] case = "event" ->
              /\ callResult' = [callResult EXCEPT !.gotResponse = TRUE, !.echoed = TRUE]
              /\ UNCHANGED callPc
         [] case = "nil" ->
              UNCHANGED <<callPc, callResult>>
         [] case = "closed" ->
              /\ callPc' = "returned"
              /\ callResult' = [callResult EXCEPT
                                   !.closed = TRUE,
                                   !.returned = onClosed(callResult.gotResponse)]
         [] case = "eose" ->
              /\ callPc' = "returned"
              /\ callResult' = [callResult EXCEPT !.eose = TRUE, !.returned = TRUE]
    /\ UNCHANGED callArgs
    /\ callFrame

VerifyEnvs ==
    [url : CrawlUrls, connectOk : BOOLEAN, hasKey : BOOLEAN, signOk : BOOLEAN,
     publishOk : BOOLEAN, subscribeOk : BOOLEAN]

InitVerify ==
    /\ InitCallBase
    /\ callPc = "connect"
    /\ callArgs \in VerifyEnvs
    /\ callResult = NoVerifyResult

NextVerify ==
    \/ VerifyConnect
    \/ VerifyPublish
    \/ VerifySubscribe
    \/ \E case \in SelectCases : VerifySelect(case)

SpecVerify == InitVerify /\ [][NextVerify]_vars

\* C34 as stated: verifyRelay reports success exactly when the connection
\* and the publish of the test event succeeded and the test event was echoed
\* back or the end-of-stored-events signal arrived before the read timeout
C34_SuccessIffEchoOrEose ==
    callPc = "returned" =>
        (callResult.returned <=>
            /\ callArgs.connectOk
            /\ callResult.published
            /\ callResult.echoed \/ callResult.eose)

\* C34: verifyRelay reports success exactly when the connection, the publish
\* of the signed test event and the read-back subscription succeeded and,
\* before the Events channel of the subscription was closed, the
\* end-of-stored-events signal arrived, or the test event was echoed back
\* and the read timeout was reached
C34_SuccessIffEchoOrEoseUnclosed ==
    callPc = "returned" =>
        (callResult.returned <=>
            /\ callArgs.connectOk
            /\ callResult.published
            /\ callResult.subscribed
            /\ ~callResult.closed
            /\ callResult.echoed \/ callResult.eose)

\* the test event was echoed back, then the Events channel was closed:
\* verifyRelay has reported failure
C34_EchoThenClosed ==
    /\ callPc = "returned"
    /\ callResult.echoed
    /\ callResult.closed
    /\ ~callResult.returned

----------------------------------------------------------------------------
\* normalizeAndValidateChatName on byte strings (ASCII), and the name that
\* joinChats stores for one word of its payload.

\* maxChatNameLen (12 in types.go), scaled
maxChatNameLen == 3

\* length of the longest raw name
MaxNameInput == 4

\* the characters of the raw names: A, b, '-', ' ', '!'
NameRunes == {65, 98, 45, 32, 33}

RECURSIVE SeqsUpTo(_, _)
SeqsUpTo(S, n) ==
    IF n = 0 THEN {<<>>}
    ELSE LET shorter == SeqsUpTo(S, n - 1)
         IN  shorter \cup {Append(t, x) : t \in {u \in shorter : Len(u) = n - 1}, x \in S}

\* strings.ToLower on one ASCII character
toLowerRune(r) == IF r >= 65 /\ r <= 90 THEN r + 32 ELSE r

\* unicode.IsLetter(r) || unicode.IsNumber(r) on ASCII
isLetterOrNumber(r) == (r >= 97 /\ r <= 122) \/ (r >= 65 /\ r <= 90) \/ IsDigit(r)

\* a '-' is written for every separator
writesDash_always(lastWasDash) == TRUE

\* if !lastWasDash { builder.WriteRune('-') }
writesDash(lastWasDash) == ~lastWasDash

\* the loop over the runes of the lowered name
RECURSIVE normalizeFrom(_, _, _)
normalizeFrom(rest, built, lastWasDash) ==
    IF rest = <<>> THEN [err |-> FALSE, name |-> built]
    ELSE LET r == Head(rest)
         IN  IF isLetterOrNumber(r)
             THEN normalizeFrom(Tail(rest), Append(built, r), FALSE)
             ELSE IF IsSpace(r) \/ r = 45
             THEN normalizeFrom(Tail(rest),
                                IF writesDash(lastWasDash) THEN Append(built, 45) ELSE built,
                                TRUE)
             ELSE [err |-> TRUE, name |-> <<>>]

\* strings.Trim(s, "-")
RECURSIVE trimDashes(_)
trimDashes(s) ==
    IF s # <<>> /\ Head(s) = 45 THEN trimDashes(Tail(s))
    ELSE IF s # <<>> /\ s[Len(s)] = 45 THEN trimDashes(SubSeq(s, 1, Len(s) - 1))
    ELSE s

\* normalizeAndValidateChatName(name) on a byte string
normalizeChatName(name) ==
    LET r == normalizeFrom([i \in 1..Len(name) |-> toLowerRune(name[i])], <<>>, FALSE)
    IN  IF r.err THEN r ELSE [err |-> FALSE, name |-> trimDashes(r.name)]

\* geohash.Validate(name) == nil: a non-empty word of the geohash alphabet
geohashValidName(name) ==
    /\ name # <<>>
    /\ \A i \in 1..Len(name) :
         \/ IsDigit(name[i])
         \/ name[i] >= 98 /\ name[i] <= 122 /\ name[i] \notin {105, 108, 111}

\* one round of the loop of joinChats up to the lookup of the name: the name
\* that will be stored (or found among the views), if any
joinedName(raw) ==
    LET norm == normalizeChatName(raw)
    IN  IF geohashValidName(raw) THEN [stored |-> TRUE, name |-> raw]
        ELSE IF norm.err THEN [stored |-> FALSE, name |-> <<>>]
        ELSE IF Len(norm.name) > maxChatNameLen THEN [stored |-> FALSE, name |-> <<>>]
        ELSE IF Len(norm.name) = 0 THEN [stored |-> FALSE, name |-> <<>>]
        ELSE [stored |-> TRUE, name |-> norm.name]

\* joinChats meets the word callArgs
NormalizeCall ==
    /\ callPc = "called"
    /\ callPc' = "returned"
    /\ callResult' = [norm |-> normalizeChatName(callArgs), join |-> joinedName(callArgs)]
    /\ UNCHANGED callArgs
    /\ callFrame

InitName ==
    /\ InitCallBase
    /\ callPc = "called"
    /\ callArgs \in SeqsUpTo(NameRunes, MaxNameInput)
    /\ callResult = <<>>

NextName == NormalizeCall

SpecName == InitName /\ [][NextName]_vars

\* lower-case letters, digits and single '-' between them
isNormalForm(name) ==
    /\ \A i \in 1..Len(name) :
         name[i] = 45 \/ IsDigit(name[i]) \/ (name[i] >= 97 /\ name[i] <= 122)
    /\ \A i \in 1..(Len(name) - 1) : ~(name[i] = 45 /\ name[i + 1] = 45)
    /\ name # <<>> => name[1] # 45 /\ name[Len(name)] # 45

\* the letters and digits of the name, lowered, in their order
RECURSIVE lettersOf(_)
lettersOf(name) ==
    IF name = <<>> THEN <<>>
    ELSE IF isLetterOrNumber(Head(name))
    THEN <<toLowerRune(Head(name))>> \o lettersOf(Tail(name))
    ELSE lettersOf(Tail(name))

\* the name with every character that is no letter, digit or '-' made a blank
punctuationAsSpace(name) ==
    [i \in 1..Len(name) |->
        IF isLetterOrNumber(name[i]) \/ name[i] = 45 THEN name[i] ELSE 32]

\* C35 as stated: the name is lowercased and every run of punctuation or
\* whitespace becomes a single '-'
C35_PunctuationCollapsed ==
    callPc = "returned" =>
        /\ ~callResult.norm.err
        /\ callResult.norm.name = normalizeChatName(punctuationAsSpace(callArgs)).name

\* C35: normalizeAndValidateChatName rejects a name that holds a character
\* other than a letter, a digit, white space or '-'; otherwise it lowercases
\* the name, makes every run of white space and '-' a single '-' and drops
\* the '-' at both ends; every named (non-geohash) chat that join-chats
\* stores is in this form, is not empty and has at most maxChatNameLen
\* characters
C35_NormalizedOrRejected ==
    callPc = "returned" =>
        LET raw  == callArgs
            norm == callResult.norm
            join == callResult.join
        IN  /\ norm.err <=> \E i \in 1..Len(raw) :
                                ~(isLetterOrNumber(raw[i]) \/ IsSpace(raw[i]) \/ raw[i] = 45)
            /\ ~norm.err => /\ isNormalForm(norm.name)
                            /\ lettersOf(norm.name) = lettersOf(raw)
            /\ join.stored /\ ~geohashValidName(raw) =>
                   /\ join.name = norm.name
                   /\ isNormalForm(join.name)
                   /\ Len(join.name) >= 1
                   /\ Len(join.name) <= maxChatNameLen

\* "A -b" was joined as "a-b"
C35_JoinedNormalized ==
    /\ callPc = "returned"
    /\ callArgs = <<65, 32, 45, 98>>
    /\ callResult.join = [stored |-> TRUE, name |-> <<97, 45, 98>>]

----------------------------------------------------------------------------
\* countLeadingZeroBits on its own.

\* length of the longest hex string
MaxHexLen == 3

\* the characters of the strings: 0, 1, 4, 8, F, b, g
HexRunes == {48, 49, 52, 56, 70, 98, 103}

CountCall ==
    /\ callPc = "called"
    /\ callPc' = "returned"
    /\ callResult' = countLeadingZeroBits(callArgs)
    /\ UNCHANGED callArgs
    /\ callFrame

InitCount ==
    /\ InitCallBase
    /\ callPc = "called"
    /\ callArgs \in SeqsUpTo(HexRunes, MaxHexLen)
    /\ callResult = -1

NextCount == CountCall

SpecCount == InitCount /\ [][NextCount]_vars

\* the value of one hex digit, -1 for any other character
hexDigitValue(ch) ==
    IF ch >= 48 /\ ch <= 57 THEN ch - 48
    ELSE IF ch >= 97 /\ ch <= 102 THEN ch - 87
    ELSE IF ch >= 65 /\ ch <= 70 THEN ch - 55
    ELSE -1

\* the longest prefix of hex digits
RECURSIVE hexPrefix(_)
hexPrefix(s) ==
    IF s = <<>> \/ hexDigitValue(Head(s)) = -1 THEN <<>>
    ELSE <<Head(s)>> \o hexPrefix(Tail(s))

\* the number that a string of hex digits encodes
RECURSIVE hexValue(_, _)
hexValue(s, acc) ==
    IF s = <<>> THEN acc ELSE hexValue(Tail(s), 16 * acc + hexDigitValue(Head(s)))

\* the number of binary digits of n
RECURSIVE bitLength(_)
bitLength(n) == IF n = 0 THEN 0 ELSE 1 + bitLength(n \div 2)

\* C36: countLeadingZeroBits returns the number of leading zero bits of the
\* value that the hex digits before the first non-hex character encode, four
\* bits to a digit
C36_LeadingZeroBitsOfHexPrefix ==
    callPc = "returned" =>
        LET p == hexPrefix(callArgs)
        IN  callResult = 4 * Len(p) - bitLength(hexValue(p, 0))

\* "04F" has five leading zero bits
C36_ZeroNibbleThenFour ==
    /\ callPc = "returned"
    /\ callArgs = <<48, 52, 70>>
    /\ callResult = 5

----------------------------------------------------------------------------
\* The listeners of the relays that reconciliation removes and connects again.

\* c.wg.Add(1); go c.listenForEvents(mr) at the end of manageRelayConnection
startListener(i) ==
    IF isTask(i) THEN UNCHANGED listenVars
    ELSE /\ lis' = [lis EXCEPT ![reps[i].mr] = [NoLis EXCEPT !.pc = "loop",
                                                           !.url = reps[i].url]]
         /\ mrConnected' = [mrConnected EXCEPT ![reps[i].mr] = TRUE]
         /\ UNCHANGED <<mrAttempts, closedSubs, discovered, ncloses>>

\* the end of replaceSubscription with the listener that follows it
ListeningInstall(i) == ReplaceInstallWith(i, startListener(i))

\* the listener task of managed relay m has not returned
listenerRunning(m) == lis[m].pc \notin {"none", "exited"}

\* r1 is in the failure cache; r2 is connected as managed relay 1 and
\* subscribed for the active chat b, its listener runs
InitRelisten ==
    /\ views = MineViews
    /\ activeViewName = "b"
    /\ blockedUsers = {}
    /\ mutes = <<>>
    /\ filters = <<>>
    /\ mainKey = 1
    /\ chatKeys = [c \in ChatNames |-> 0]
    /\ lastEmitted = <<>>
    /\ InitIngest
    /\ IdlePerm
    /\ IdlePoW
    /\ IdleMine
    /\ IdleCrawl
    /\ IdleShut
    /\ IdleSend
    /\ IdleLock
    /\ IdleBackoff
    /\ IdleTimer
    /\ IdlePub
    /\ IdleCall
    /\ discovered = {}
    /\ relays = [u \in Relays |-> IF u = "r2" THEN 1 ELSE 0]
    /\ mrSubscription = [m \in ConnIds |-> IF m = 1 THEN 1 ELSE 0]
    /\ mrClosed = [m \in ConnIds |-> FALSE]
    /\ subs = [m \in ConnIds |->
                  IF m = 1 THEN << [chats |-> <<"b">>, live |-> TRUE] >> ELSE <<>>]
    /\ failCache = {"r1"}
    /\ rpc = "idle"
    /\ desiredRelays = <<>>
    /\ reps = [i \in RepIds |-> NoRep]
    /\ nconns = 1
    /\ calls = 0
    /\ rhist = NoHist
    /\ mrConnected = [m \in ConnIds |-> m = 1]
    /\ mrAttempts = [m \in ConnIds |-> 0]
    /\ lis = [m \in ConnIds |->
                 IF m = 1 THEN [NoLis EXCEPT !.pc = "loop", !.url = "r2"] ELSE NoLis]
    /\ closedSubs = {}
    /\ ncloses = 0

NextRelisten ==
    \/ LeaveChatWith("b", UpdateRelaySubscriptions)
    \/ JoinChatsWith(<<"b">>, UpdateRelaySubscriptions)
    \/ RemoveUnneeded
    \/ FinishCall
    \/ \E i \in RepIds, ok \in BOOLEAN : Connect(i, ok)
    \/ \E i \in RepIds : ReplaceRead(i)
    \/ \E i \in RepIds, ok \in BOOLEAN : ReplaceSubscribe(i, ok)
    \/ \E i \in RepIds : ListeningInstall(i)
    \/ \E m \in ConnIds : LisLoop(m)
    \/ \E m \in ConnIds, ctxDone \in BOOLEAN : LisSelect(m, ctxDone)
    \/ \E m \in ConnIds : LisClosed(m)
    \/ Shutdown

SpecRelisten == InitRelisten /\ [][NextRelisten]_vars

\* C37: at any time at most one listener task is running per relay URL (the
\* listener of a relay that left the table has returned before the URL gets
\* another one)
C37_OneListenerPerURL ==
    \A m, n \in ConnIds :
        listenerRunning(m) /\ listenerRunning(n) /\ lis[m].url = lis[n].url => m = n

----------------------------------------------------------------------------
\* The items of the ordering buffers and the display events made of them.

\* the places of the ordering buffers that hold an item of the event id
bufferedAt(id) ==
    {p \in StreamKeys \X (1..perStreamBufferMax) :
        p[2] <= Len(orderBuf[p[1]]) /\ orderBuf[p[1]][p[2]].id = id}

\* the NEW_MESSAGE events of the event id that went to the UI
emittedAt(id) ==
    {i \in 1..Len(uiEvents) : uiEvents[i].Type = "NEW_MESSAGE" /\ uiEvents[i].ID = id}

\* so few items were enqueued that no buffer has dropped one
noOverflowYet ==
    /\ \A id \in EventIds : enqCount[id] <= 1
    /\ Cardinality({id \in EventIds : enqCount[id] = 1}) <= perStreamBufferMax

\* C38: an item that was enqueued and not dropped by an overflow is in its
\* buffer or was emitted to the UI, never both and never twice; an item that
\* has left the buffer without a display event is never emitted
C38_EnqueuedItemsEmittedOnce ==
    noOverflowYet =>
        \A id \in EventIds :
            Cardinality(bufferedAt(id)) + Cardinality(emittedAt(id)) = enqCount[id]

----------------------------------------------------------------------------
\* The active view after the handlers of the view list.

\* C39: after every join, create-group, leave, delete and activate action the
\* active view name is the name of an existing view unless there is no view,
\* and getActiveView returns no view only when there is no view
C39_ActiveViewExists ==
    /\ Len(views) > 0 => HasView(views, activeViewName)
    /\ getActiveView = NoView => Len(views) = 0

\* the active chat a was left: chat c, the only view that remains, is active
C39_ActiveLeftFirstViewActive ==
    /\ views = <<View("c", FALSE, <<>>, 0)>>
    /\ activeViewName = "c"
    /\ lastEmitted = <<DE("STATE_UPDATE", ""), DE("STATUS", "Updating subscriptions")>>

----------------------------------------------------------------------------
\* sameStringSet on its own.

\* length of the longest list
MaxListLen == 3

\* the strings of the lists
ListStrings == {"a", "b"}

SameCall ==
    /\ callPc = "called"
    /\ callPc' = "returned"
    /\ callResult' = sameStringSet(callArgs[1], callArgs[2])
    /\ UNCHANGED callArgs
    /\ callFrame

InitSame ==
    /\ InitCallBase
    /\ callPc = "called"
    /\ callArgs \in SeqsUpTo(ListStrings, MaxListLen) \X SeqsUpTo(ListStrings, MaxListLen)
    /\ callResult = FALSE

NextSame == SameCall

SpecSame == InitSame /\ [][NextSame]_vars

\* the set of the strings of a list
stringsOf(list) == {list[i] : i \in 1..Len(list)}

====
